---------------------------- MODULE Spec2Model ----------------------------
(***************************************************************************)
(* Fleet telemetry collector of src/APP/server.py: the metric and hash     *)
(* ingestion handlers, the in-memory liveness cache with its four history  *)
(* deques, the alert / file_hashes / logs tables and the fleet view.       *)
(*                                                                         *)
(* Conventions of the model                                                *)
(*  - time is in whole seconds; `now` is the UTC clock the handlers read;  *)
(*  - a handler is one atomic action (the concurrency of handlers is       *)
(*    modelled separately, where a claim is about it);                     *)
(*  - a storage error (SQLAlchemyError) of an insert or a query is an      *)
(*    input of the action: the environment decides which statements fail;  *)
(*  - JSON values are records tagged with their Python type in field t;    *)
(*  - floats are exact rationals: a cpu value is an integer, a ratio is a  *)
(*    reduced fraction, a rounded average is an integer count of 1/100.    *)
(***************************************************************************)
EXTENDS Integers, Sequences, FiniteSets, TLC

VARIABLES
    now,                \* the wall clock, seconds
    _metrics_cache,     \* ordered dict hostname -> snapshot: sequence of [key, val]
    _history_up,        \* deque(maxlen=METRICS_HISTORY_LEN)
    _history_down,
    _history_cpu,
    _history_ram,
    alerts,             \* table alerts, in id order (id = position)
    file_hashes,        \* table file_hashes, in insertion order, run-length coded
    logs,               \* table logs, in id order
    disk,               \* the raw-payload files written under UPLOAD_DIR
    suspicious_hashes,  \* the table bound to suspicious_hashes (the IOC table)
    IOC_TABLE_NAME,     \* configuration: "" when unset
    req,                \* the request the last handler received, with its faults
    resp,               \* the response of the last ingestion handler
    view,               \* the last api_metrics call: its locals now and
                        \* list(_metrics_cache.items()), and its response
    samples,            \* history variable: every sample api_metrics appended
    used,               \* how many requests, clock steps and reads so far
    listing,            \* the response of the last get_alerts or get_logs call
    readers,            \* the api_metrics calls in progress on the worker threads:
                        \* per thread, the statement it is at and its locals
    origin,             \* history variable: for each element of the four deques,
                        \* the read (its serial number) that appended it
    lookups,            \* history variable: the IOC queries issued so far
    agent,              \* the agent's metrics_loop thread: the statement it is at,
                        \* its locals, its clock, and the history of its posts
    test_agent          \* the test agent's main(): the statement it is at, its
                        \* arguments and locals, and the history of its calls

vars == << now, _metrics_cache, _history_up, _history_down, _history_cpu,
           _history_ram, alerts, file_hashes, logs, disk, suspicious_hashes,
           IOC_TABLE_NAME, req, resp, view, samples, used, listing, readers,
           origin, lookups, agent, test_agent >>

---------------------------------------------------------------------------
(* Program constants *)

CPU_HIGH == 90
\* RAM_RATIO_HIGH = 0.9, kept as the fraction 9/10
RAM_RATIO_HIGH_NUM == 9
RAM_RATIO_HIGH_DEN == 10
METRICS_HISTORY_LEN == 20
STALE_SECS == 30
MAX_ROWS == 20000
\* String(1024) slices: file_path[:1024]
PATH_SLICE == 1024
\* sha256[:64] and len(sha) == 64
SHA_LEN == 64
\* limit: int = Query(50, ge=1, le=500)
LIMIT_DEFAULT == 50
LIMIT_MIN == 1
LIMIT_MAX == 500
\* agent: --metrics-interval default, send_metrics timeout, shortest sleep
METRICS_INTERVAL_DEFAULT == 5
SEND_TIMEOUT == 20
SLEEP_MIN == 1
\* test agent: --metrics-interval and --hash-interval defaults, chunk_size
TEST_METRICS_INTERVAL == 5
TEST_HASH_INTERVAL == 1800
HASH_CHUNK == 1500

(* Bounds of the model *)

\* ingestion requests per behaviour, specification Spec
MaxRequests == 2
\* clock steps per behaviour, specification Spec
MaxTicks == 2
\* fleet-view reads per behaviour, specification Spec
MaxReads == 1
\* ingestion requests per behaviour, specification SpecIngest
MaxIngest == 2
\* reads beyond the deque capacity, specification SpecHistory
ExtraReads == 1
\* ingestion requests, and clock steps, specification SpecHistory
MaxHistRequests == 1
\* hash batches and clock steps, specification SpecHashes
MaxBatches == 2
\* hash batches, specification SpecMtime
MaxMtimeBatches == 2
MaxHashTicks == 1
\* ingestion requests and fleet-view reads, specification SpecRam
MaxRamRequests == 2
MaxRamReads == 2
\* ingestion requests, specification SpecStorage
MaxStorageRequests == 2
\* ingestion requests, clock steps and alert listings, specification SpecAlerts
MaxAlertRequests == 3
MaxAlertTicks == 1
MaxListings == 1
\* ingestion requests, specification SpecHostname
MaxHostRequests == 3
\* ingestion requests, reads (fleet views and listings) and clock steps,
\* specification SpecOperations
MaxOpRequests == 2
MaxOpReads == 2
MaxOpTicks == 1
\* ingestion requests and fleet-view reads begun, specification SpecConcurrent
MaxConcRequests == 2
MaxConcReads == 2
\* iterations of the agent's metrics loop, specification SpecAgent
MaxAgentTicks == 3
\* iterations of the test agent's loop, specification SpecTestAgent
MaxTestTicks == 2

---------------------------------------------------------------------------
(* Python values *)

\* JSON scalars of the metric fields. v is the number of a "num", the number a
\* "numstr" (a string such as "95") parses to, the length of a "text" (a string
\* that is no number, "" when v = 0) or of a "list".
JNull == [t |-> "null", v |-> 0]
JNum(n) == [t |-> "num", v |-> n]
JNumStr(n) == [t |-> "numstr", v |-> n]
JText(len) == [t |-> "text", v |-> len]
JList(len) == [t |-> "list", v |-> len]

\* bool(x)
Truthy(x) ==
    CASE x.t = "null" -> FALSE
      [] x.t = "num" -> x.v # 0
      [] x.t = "numstr" -> TRUE
      [] OTHER -> x.v > 0

\* float(x): ValueError on a string that is no number, TypeError on a list
PyFloat(x) ==
    IF x.t \in {"num", "numstr"} THEN [ok |-> TRUE, v |-> x.v]
    ELSE [ok |-> FALSE, v |-> 0]

\* float(x or 0.0)
FloatOrZero(x) == IF Truthy(x) THEN PyFloat(x) ELSE [ok |-> TRUE, v |-> 0]

\* int(x or 0), on the integers and integer strings of the model
IntOrZero(x) == IF Truthy(x) THEN PyFloat(x) ELSE [ok |-> TRUE, v |-> 0]

\* hostname values: a JSON string s, or null / absent
HNull == [t |-> "null", s |-> ""]
HStr(s) == [t |-> "str", s |-> s]
HNum == [t |-> "num", s |-> "5"]

\* the hostname taken as it is, str(x) without the default
HostAsGiven(x, default) == x.s

\* str(x or default) of a hostname value
HostOr(x, default) == IF x.t = "null" \/ x.s = "" THEN default ELSE x.s

\* s.strip(), on the hostnames of the model
Strip(s) ==
    CASE s = " h1 " -> "h1"
      [] s = "  " -> ""
      [] OTHER -> s

RECURSIVE Gcd(_, _)
Gcd(a, b) == IF b = 0 THEN a ELSE Gcd(b, a % b)

Abs(x) == IF x < 0 THEN -x ELSE x

\* the fraction n/d, d > 0, reduced
Frac(n, d) ==
    LET g == Gcd(Abs(n), d) IN [num |-> n \div g, den |-> d \div g]

FracAdd(p, q) == Frac(p.num * q.den + q.num * p.den, p.den * q.den)

\* p >= q
FracGeq(p, q) == p.num * q.den >= q.num * p.den

\* round(n/d, 2) in units of 1/100, d > 0, n >= 0: to the nearest, ties to even
Round2(n, d) ==
    LET q == (100 * n) \div d
        r == (100 * n) % d
    IN  IF 2 * r > d \/ (2 * r = d /\ q % 2 = 1) THEN q + 1 ELSE q

\* optional columns: None, or a value
NoneNum == [t |-> "null", v |-> 0]
SomeNum(v) == [t |-> "num", v |-> v]
NoneFrac == [t |-> "null", num |-> 0, den |-> 1]
SomeFrac(p) == [t |-> "num", num |-> p.num, den |-> p.den]

---------------------------------------------------------------------------
(* Strings whose length and letter case matter (file paths, hashes): body   *)
(* names the text, up says it holds upper-case letters, len is its length. *)
(* A null / absent value has t = "null"; an integer has t = "int" and       *)
(* body/len describe its decimal text.                                     *)

SNull == [t |-> "null", body |-> "", up |-> FALSE, len |-> 0]
SStr(body, up, len) == [t |-> "str", body |-> body, up |-> up, len |-> len]
SInt(body, len) == [t |-> "int", body |-> body, up |-> FALSE, len |-> len]

\* bool(x)
STruthy(x) == x.t # "null" /\ x.len > 0

\* str(x)
SText(x) == SStr(x.body, x.up, x.len)

\* s.lower()
Lower(s) == [s EXCEPT !.up = FALSE]

\* s[:k]
Slice(s, k) == IF s.len > k THEN [s EXCEPT !.len = k] ELSE s

---------------------------------------------------------------------------
(* The ordered dict _metrics_cache *)

DictHas(d, k) == \E i \in 1..Len(d) : d[i].key = k

DictGet(d, k) == d[CHOOSE i \in 1..Len(d) : d[i].key = k].val

\* the entries of the other hosts that went stale evicted on the way
DictSetEvicting(d, k, v) ==
    LET fresh(e) == e.key = k \/ now - e.val.ts <= STALE_SECS
        kept == SelectSeq(d, fresh)
    IN  IF \E i \in 1..Len(kept) : kept[i].key = k
        THEN [i \in 1..Len(kept) |->
                 IF kept[i].key = k THEN [key |-> k, val |-> v] ELSE kept[i]]
        ELSE Append(kept, [key |-> k, val |-> v])

\* every report kept: the entry appended, an older one of the key left in place
DictSetAppend(d, k, v) == Append(d, [key |-> k, val |-> v])

\* d[k] = v: an existing key keeps its position
DictSet(d, k, v) ==
    IF DictHas(d, k)
    THEN [i \in 1..Len(d) |-> IF d[i].key = k THEN [key |-> k, val |-> v] ELSE d[i]]
    ELSE Append(d, [key |-> k, val |-> v])

DictKeys(d) == {d[i].key : i \in 1..Len(d)}

\* a plain list in place of the bounded deque
DequeAppendUnbounded(q, x) == Append(q, x)

\* the sample appended twice
DequeAppendTwice(q, x) == Append(Append(q, x), x)

\* deque(maxlen=METRICS_HISTORY_LEN).append(x)
DequeAppend(q, x) ==
    IF Len(q) >= METRICS_HISTORY_LEN THEN Append(Tail(q), x) ELSE Append(q, x)

---------------------------------------------------------------------------
(* Requests, responses, faults *)

\* faults of one request: the logs insert, the file_hashes insert, the IOC
\* query and the payload file write fail when set; alert holds the positions,
\* among the request's _insert_alert calls, of those that fail
NoFaults ==
    [log |-> FALSE, rows |-> FALSE, ioc |-> FALSE, disk |-> FALSE, alert |-> {}]

NoPath == [hn |-> "", ts |-> -1]

\* UPLOAD_DIR / f"{hn}_{ts}.json"
SavedPath(hn, ts) == [hn |-> hn, ts |-> ts]

NoResp ==
    [op |-> "none", status |-> 0, ok |-> FALSE, saved_file |-> NoPath,
     resource_alerted |-> FALSE, inserted_hash_rows |-> 0, alerts_created |-> 0]

NoReq == [op |-> "none", body |-> [kind |-> "none"], faults |-> NoFaults]

\* a failure answered as a success
ErrorRespAsOk(op, status) == [NoResp EXCEPT !.op = op, !.status = 200, !.ok = TRUE]

\* HTTPException(status_code=400) and the 500 of an unhandled exception
ErrorResp(op, status) == [NoResp EXCEPT !.op = op, !.status = status]

\* one more of the counted kind
Count(kind) == [used EXCEPT ![kind] = @ + 1]

---------------------------------------------------------------------------
(* Helpers of the handlers *)

\* hn.replace(" ", "_"), on the hostnames of the model
ReplaceSpaces(s) ==
    CASE s = " h1 " -> "_h1_"
      [] s = "  " -> "__"
      [] OTHER -> s

\* _save_json_to_disk: the path it returns; ts is the clock
SaveJsonPath(hostname) == SavedPath(ReplaceSpaces(HostOr(hostname, "unknown")), now)

\* _save_json_to_disk: the files after the write, whose failure is swallowed
SaveJsonDisk(hostname, fails) ==
    IF fails THEN disk ELSE disk \cup {SaveJsonPath(hostname)}

\* the audit row written only when the payload file was
InsertLogNeedsFile(device_name, log_path, severity, fails) ==
    IF fails \/ log_path \notin disk' THEN logs
    ELSE Append(logs, [id |-> Len(logs) + 1, device_name |-> device_name,
                       log_path |-> log_path, severity |-> severity,
                       created_at |-> now])

\* the audit row written twice
InsertLogTwice(device_name, log_path, severity, fails) ==
    IF fails THEN logs
    ELSE logs \o << [id |-> Len(logs) + 1, device_name |-> device_name,
                     log_path |-> log_path, severity |-> severity, created_at |-> now],
                    [id |-> Len(logs) + 2, device_name |-> device_name,
                     log_path |-> log_path, severity |-> severity, created_at |-> now] >>

\* insert(logs).values(...): the table after the insert, whose failure is swallowed
InsertLog(device_name, log_path, severity, fails) ==
    IF fails THEN logs
    ELSE Append(logs, [id |-> Len(logs) + 1, device_name |-> device_name,
                       log_path |-> log_path, severity |-> severity,
                       created_at |-> now])

\* the row _insert_alert writes into table tbl
AlertRow(tbl, a) ==
    [id |-> Len(tbl) + 1, ts |-> now, hostname |-> a.hostname,
     category |-> a.category, severity |-> "CRITICAL", label |-> "Critical issue",
     description |-> a.description,
     file_path |-> IF STruthy(a.file_path) THEN Slice(a.file_path, PATH_SLICE) ELSE SNull,
     sha256 |-> IF STruthy(a.sha256) THEN Slice(a.sha256, SHA_LEN) ELSE SNull,
     cpu |-> a.cpu, ram_ratio |-> a.ram_ratio]

\* the alert written over the stored alert of the same host and category
InsertAlertUpsert(tbl, a, fails) ==
    IF fails THEN tbl
    ELSE IF \E i \in 1..Len(tbl) : tbl[i].hostname = a.hostname /\ tbl[i].category = a.category
         THEN [i \in 1..Len(tbl) |->
                  IF tbl[i].hostname = a.hostname /\ tbl[i].category = a.category
                  THEN [AlertRow(tbl, a) EXCEPT !.id = i] ELSE tbl[i]]
         ELSE Append(tbl, AlertRow(tbl, a))

\* _insert_alert: the table after the call; a storage error is printed and swallowed
InsertAlert(tbl, a, fails) == IF fails THEN tbl ELSE Append(tbl, AlertRow(tbl, a))

---------------------------------------------------------------------------
(* POST /collect-metrics *)

\* the ratio guarded against a zero ramTotal only
RamRatioNonZero(ru, rt) ==
    IF rt > 0 THEN Frac(ru, rt) ELSE IF rt < 0 THEN Frac(-ru, -rt) ELSE Frac(0, 1)

\* ram_ratio = (ru / rt) if rt > 0 else 0.0
RamRatio(ru, rt) == IF rt > 0 THEN Frac(ru, rt) ELSE Frac(0, 1)

CpuBreach(cpu) == cpu >= CPU_HIGH

RamBreach(ram_ratio) ==
    FracGeq(ram_ratio, Frac(RAM_RATIO_HIGH_NUM, RAM_RATIO_HIGH_DEN))

\* cpu >= CPU_HIGH or ram_ratio >= RAM_RATIO_HIGH
Breach(cpu, ram_ratio) == CpuBreach(cpu) \/ RamBreach(ram_ratio)

\* the description naming the first breached threshold only
ReasonsFirstOnly(cpu, ram_ratio) ==
    IF CpuBreach(cpu) THEN <<"CPU">>
    ELSE IF RamBreach(ram_ratio) THEN <<"RAM">> ELSE <<>>

\* the reasons of the description, in order
Reasons(cpu, ram_ratio) ==
    (IF CpuBreach(cpu) THEN <<"CPU">> ELSE <<>>)
    \o (IF RamBreach(ram_ratio) THEN <<"RAM">> ELSE <<>>)

\* the threshold check with repeated alerts of a host coalesced
ResourceAlertCoalesced(tbl, hostname, cpu, ram_ratio, fails) ==
    IF Breach(cpu, ram_ratio)
       /\ ~\E i \in 1..Len(tbl) : tbl[i].category = "RESOURCE" /\ tbl[i].hostname = hostname
    THEN InsertAlert(tbl, [hostname |-> hostname, category |-> "RESOURCE",
                           description |-> Reasons(cpu, ram_ratio),
                           file_path |-> SNull, sha256 |-> SNull,
                           cpu |-> SomeNum(cpu), ram_ratio |-> SomeFrac(ram_ratio)],
                     fails)
    ELSE tbl

\* the alert table after the threshold check of one ingestion
ResourceAlert(tbl, hostname, cpu, ram_ratio, fails) ==
    IF Breach(cpu, ram_ratio)
    THEN InsertAlert(tbl, [hostname |-> hostname, category |-> "RESOURCE",
                           description |-> Reasons(cpu, ram_ratio),
                           file_path |-> SNull, sha256 |-> SNull,
                           cpu |-> SomeNum(cpu), ram_ratio |-> SomeFrac(ram_ratio)],
                     fails)
    ELSE tbl

\* the entry of the host updated in place, field by field, the RAM fields left
\* as the previous report set them
SnapshotMixed(hostname, body, cpu, rt, ru, dt, du, netIn, netOut) ==
    LET old == IF DictHas(_metrics_cache, hostname)
               THEN DictGet(_metrics_cache, hostname)
               ELSE [ramTotal |-> rt, ramUsed |-> ru]
    IN  [ts |-> now, name |-> hostname,
         ip |-> IF body.ip # "" THEN body.ip ELSE body.ip_address,
         status |-> "up", cpu |-> cpu, ramTotal |-> old.ramTotal, ramUsed |-> old.ramUsed,
         diskTotal |-> dt, diskUsed |-> du, netIn |-> netIn, netOut |-> netOut]

\* the snapshot stored in the cache
Snapshot(hostname, body, cpu, rt, ru, dt, du, netIn, netOut) ==
    [ts |-> now, name |-> hostname,
     ip |-> IF body.ip # "" THEN body.ip ELSE body.ip_address,
     status |-> "up", cpu |-> cpu, ramTotal |-> rt, ramUsed |-> ru,
     diskTotal |-> dt, diskUsed |-> du, netIn |-> netIn, netOut |-> netOut]

CollectMetrics(body, faults) ==
    /\ req' = [op |-> "collect_metrics", body |-> body, faults |-> faults]
    /\ used' = Count("req")
    /\ UNCHANGED << agent, test_agent, now, _history_up, _history_down, _history_cpu,
                    _history_ram,
                    file_hashes, suspicious_hashes, IOC_TABLE_NAME, view, samples,
                    listing, readers, origin, lookups >>
    /\ IF body.kind = "invalid"
       THEN \* request.json() raises: HTTPException 400
            /\ resp' = ErrorResp("collect_metrics", 400)
            /\ UNCHANGED << _metrics_cache, alerts, logs, disk >>
       ELSE IF body.kind # "object"
       THEN \* data.get raises AttributeError in _save_json_to_disk
            /\ resp' = ErrorResp("collect_metrics", 500)
            /\ UNCHANGED << _metrics_cache, alerts, logs, disk >>
       ELSE LET file_path == SaveJsonPath(body.hostname)
                hostname == HostOr(body.hostname, "unknown")
                rt == FloatOrZero(body.ramTotal)
                ru == FloatOrZero(body.ramUsed)
                ram_ratio == RamRatio(ru.v, rt.v)
                cpu == FloatOrZero(body.cpu)
                dtRaw == FloatOrZero(body.diskTotal)
                duRaw == FloatOrZero(body.diskUsed)
                diskOk == dtRaw.ok /\ duRaw.ok
                dt == IF diskOk THEN dtRaw.v ELSE 0
                du == IF diskOk THEN duRaw.v ELSE 0
                netIn == IntOrZero(body.netIn)
                netOut == IntOrZero(body.netOut)
            IN  /\ disk' = SaveJsonDisk(body.hostname, faults.disk)
                /\ logs' = InsertLog(hostname, file_path, "METRICS", faults.log)
                /\ IF ~(rt.ok /\ ru.ok /\ cpu.ok /\ netIn.ok /\ netOut.ok)
                   THEN \* float() / int() raises: unhandled, 500
                        /\ resp' = ErrorResp("collect_metrics", 500)
                        /\ UNCHANGED << _metrics_cache, alerts >>
                   ELSE /\ _metrics_cache' =
                               DictSet(_metrics_cache, hostname,
                                       Snapshot(hostname, body, cpu.v, rt.v, ru.v,
                                                dt, du, netIn.v, netOut.v))
                        /\ alerts' = ResourceAlert(alerts, hostname, cpu.v, ram_ratio,
                                                   1 \in faults.alert)
                        /\ resp' = [NoResp EXCEPT
                                      !.op = "collect_metrics", !.status = 200,
                                      !.ok = TRUE, !.saved_file = file_path,
                                      !.resource_alerted = Breach(cpu.v, ram_ratio)]

---------------------------------------------------------------------------
(* GET /api/metrics *)

\* age = (now - m["ts"]).total_seconds()
Age(m) == now - m.ts

\* the comparison made strict
StatusStrict(m) == IF Age(m) < STALE_SECS THEN "up" ELSE "down"

\* status = "up" if age <= STALE_SECS else "down"
Status(m) == IF Age(m) <= STALE_SECS THEN "up" ELSE "down"

\* (ru / rt * 100.0) if rt > 0 else 0.0
RamPct(m) == IF m.ramTotal > 0 THEN Frac(m.ramUsed * 100, m.ramTotal) ELSE Frac(0, 1)

ServerRow(e) ==
    [name |-> IF e.val.name # "" THEN e.val.name ELSE e.key,
     ip |-> e.val.ip, status |-> Status(e.val), cpu |-> e.val.cpu,
     ramTotal |-> e.val.ramTotal, ramUsed |-> e.val.ramUsed,
     diskTotal |-> e.val.diskTotal, diskUsed |-> e.val.diskUsed,
     netIn |-> e.val.netIn, netOut |-> e.val.netOut]

RECURSIVE SumCpu(_)
SumCpu(d) == IF d = <<>> THEN 0 ELSE d[1].val.cpu + SumCpu(Tail(d))

RECURSIVE SumRamPct(_)
SumRamPct(d) ==
    IF d = <<>> THEN Frac(0, 1) ELSE FracAdd(RamPct(d[1].val), SumRamPct(Tail(d)))

\* the averages taken over the hosts that are up
FleetSampleOfUp(d) ==
    LET n == Len(d)
        live == SelectSeq(d, LAMBDA e : Status(e.val) = "up")
        ups == Len(live)
        ram == SumRamPct(live)
    IN  [up |-> ups, down |-> n - ups,
         cpu |-> IF ups = 0 THEN 0 ELSE Round2(SumCpu(live), ups),
         ram |-> IF ups = 0 THEN 0 ELSE Round2(ram.num, ram.den * ups)]

\* the sample one read appends: counts, and the averages rounded to 2 decimals
FleetSample(d) ==
    LET n == Len(d)
        ups == Cardinality({i \in 1..n : Status(d[i].val) = "up"})
        ram == SumRamPct(d)
    IN  [up |-> ups, down |-> n - ups,
         cpu |-> IF n = 0 THEN 0 ELSE Round2(SumCpu(d), n),
         ram |-> IF n = 0 THEN 0 ELSE Round2(ram.num, ram.den * n)]

ApiMetrics ==
    LET s == FleetSample(_metrics_cache) IN
    /\ _history_up' = DequeAppend(_history_up, s.up)
    /\ _history_down' = DequeAppend(_history_down, s.down)
    /\ _history_cpu' = DequeAppend(_history_cpu, s.cpu)
    /\ _history_ram' = DequeAppend(_history_ram, s.ram)
    /\ view' = [now |-> now, items |-> _metrics_cache,
                servers |-> [i \in 1..Len(_metrics_cache) |-> ServerRow(_metrics_cache[i])],
                history |-> [up |-> _history_up', down |-> _history_down',
                             cpu |-> _history_cpu', ram |-> _history_ram']]
    /\ samples' = Append(samples, s)
    /\ used' = Count("read")
    /\ UNCHANGED << agent, test_agent, now, _metrics_cache, alerts, file_hashes, logs, disk,
                    suspicious_hashes, IOC_TABLE_NAME, req, resp, listing, readers,
                    origin, lookups >>

---------------------------------------------------------------------------
(* The clock *)

Tick(d) ==
    /\ now' = now + d
    /\ used' = Count("tick")
    /\ UNCHANGED << agent, test_agent, _metrics_cache, _history_up, _history_down,
                    _history_cpu,
                    _history_ram, alerts, file_hashes, logs, disk,
                    suspicious_hashes, IOC_TABLE_NAME, req, resp, view, samples,
                    listing, readers, origin, lookups >>

---------------------------------------------------------------------------
(* POST /collect-hashes *)

\* The "hashes" member of a payload: absent, or a JSON value of type t. A list
\* holds its entries run-length coded, runs being a sequence of [e, n]: entry e
\* repeated n times. For another type n is its length or number.
HAbsent == [t |-> "absent", n |-> 0, runs |-> << >>]
HOther(t, n) == [t |-> t, n |-> n, runs |-> << >>]

RECURSIVE RunsLen(_)
RunsLen(runs) == IF runs = << >> THEN 0 ELSE runs[1].n + RunsLen(Tail(runs))

HList(runs) == [t |-> "list", n |-> RunsLen(runs), runs |-> runs]

\* payload.get("hashes") or []
HashesOrEmpty(h) == IF h.t \notin {"absent", "null"} /\ h.n > 0 THEN h ELSE HList(<< >>)

\* an entry of the list: a JSON object with optional members, or another value
(* The mtime of an entry. A date-time text is told by what fromisoformat   *)
(* reads in it: whether the part before the zone is an ISO date-time (iso), *)
(* its wall-clock reading in hours since 0001-01-01T00:00 (wall), and its   *)
(* zone: none (""), the letter Z ("Z") or an offset of off hours ("off").   *)

\* datetime.max, in hours since datetime.min
DATETIME_MAX == 3652059 * 24 - 1

MAbsent == [t |-> "absent", iso |-> FALSE, wall |-> 0, zone |-> "", off |-> 0, len |-> 0]
MNull == [MAbsent EXCEPT !.t = "null"]
MEmpty == [MAbsent EXCEPT !.t = "str"]
\* a JSON number n
MNum(n) == [MAbsent EXCEPT !.t = "num", !.len = IF n = 0 THEN 0 ELSE 1]
\* a text that is not a date-time, with or without a trailing Z
MGarbage(zone) == [MAbsent EXCEPT !.t = "str", !.zone = zone, !.len = 7]
\* an ISO date-time text
MIso(wall, zone, off) ==
    [t |-> "str", iso |-> TRUE, wall |-> wall, zone |-> zone, off |-> off, len |-> 20]

\* a datetime object, naive or aware; None; a raised exception
DtNaive(wall) == [t |-> "dt", wall |-> wall, aware |-> FALSE, off |-> 0]
DtAware(wall, off) == [t |-> "dt", wall |-> wall, aware |-> TRUE, off |-> off]
DtNone == [t |-> "none", wall |-> 0, aware |-> FALSE, off |-> 0]
DtRaised == [t |-> "raised", wall |-> 0, aware |-> FALSE, off |-> 0]

\* bool(v)
MTruthy(v) == v.t \notin {"absent", "null"} /\ v.len > 0

\* the trailing Z left in place
ZKept(s) == s

\* if s.endswith("Z"): s = s[:-1] + "+00:00"
ZToOffset(s) == IF s.zone = "Z" THEN [s EXCEPT !.zone = "off", !.off = 0] ELSE s

\* datetime.fromisoformat(s): ValueError unless s is an ISO date-time with no
\* zone or a numeric offset
FromIsoFormat(s) ==
    IF ~s.iso \/ s.zone = "Z" THEN DtRaised
    ELSE IF s.zone = "" THEN DtNaive(s.wall) ELSE DtAware(s.wall, s.off)

\* if dt.tzinfo is None: dt = dt.replace(tzinfo=timezone.utc)
AssumeUtc(dt) == IF dt.aware THEN dt ELSE DtAware(dt.wall, 0)

\* dt.astimezone(timezone.utc): OverflowError outside datetime.min..datetime.max
AsTimezoneUtc(dt) ==
    IF dt.wall - dt.off < 0 \/ dt.wall - dt.off > DATETIME_MAX THEN DtRaised
    ELSE DtAware(dt.wall - dt.off, 0)

\* _parse_iso_to_aware
ParseIsoToAware(v) ==
    IF ~MTruthy(v) THEN DtNone
    ELSE LET s == ZToOffset([v EXCEPT !.t = "str"])
             dt == FromIsoFormat(s)
         IN  IF dt.t = "raised" THEN DtNone
             ELSE LET utc == AsTimezoneUtc(AssumeUtc(dt))
                  IN  IF utc.t = "raised" THEN DtNone ELSE utc

\* an entry with file_path, sha256 and mtime members
EntryAt(file_path, sha256, mtime) ==
    [t |-> "dict", file_path |-> file_path, sha256 |-> sha256, mtime |-> mtime]
\* an entry without mtime member
Entry(file_path, sha256) == EntryAt(file_path, sha256, MAbsent)
NonDictEntry == [t |-> "text", file_path |-> SNull, sha256 |-> SNull, mtime |-> MAbsent]

\* runs[:k] of a run-length coded list
RECURSIVE TakeRuns(_, _)
TakeRuns(runs, k) ==
    IF runs = << >> \/ k <= 0 THEN << >>
    ELSE IF runs[1].n <= k THEN << runs[1] >> \o TakeRuns(Tail(runs), k - runs[1].n)
    ELSE << [runs[1] EXCEPT !.n = k] >>

\* the whole batch, the slice left out
TruncateNothing(runs) == runs

\* hashes = hashes[:MAX_ROWS]
Truncate(runs) == TakeRuns(runs, MAX_ROWS)

\* every entry kept, the "continue" left out
HasPathAlways(e) == TRUE

\* fp = str(h.get("file_path") or ""); if not fp: continue
HasPath(e) == STruthy(e.file_path)

\* the row appended for an entry that has a file_path
HashRow(hostname, e) ==
    [ts |-> now, hostname |-> hostname,
     file_path |-> Slice(SText(e.file_path), PATH_SLICE),
     sha256 |-> IF STruthy(e.sha256) THEN SText(e.sha256) ELSE SNull,
     mtime |-> ParseIsoToAware(e.mtime)]

\* rows, leaving out the files whose hash is stored already
RECURSIVE HashRowsDeduplicated(_, _)
HashRowsDeduplicated(hostname, runs) ==
    IF runs = << >> THEN << >>
    ELSE (IF /\ HasPath(runs[1].e)
             /\ ~\E i \in 1..Len(file_hashes) :
                    /\ file_hashes[i].row.hostname = hostname
                    /\ file_hashes[i].row.file_path = HashRow(hostname, runs[1].e).file_path
                    /\ file_hashes[i].row.sha256 = HashRow(hostname, runs[1].e).sha256
          THEN << [row |-> HashRow(hostname, runs[1].e), n |-> runs[1].n] >>
          ELSE << >>)
         \o HashRowsDeduplicated(hostname, Tail(runs))

\* rows, run-length coded as the entries are
RECURSIVE HashRows(_, _)
HashRows(hostname, runs) ==
    IF runs = << >> THEN << >>
    ELSE (IF HasPath(runs[1].e)
          THEN << [row |-> HashRow(hostname, runs[1].e), n |-> runs[1].n] >>
          ELSE << >>)
         \o HashRows(hostname, Tail(runs))

\* if sha and isinstance(sha, str) and len(sha) == 64
Lookable(sha) == STruthy(sha) /\ sha.t = "str" /\ sha.len = SHA_LEN

\* sha_set
ShaSet(runs) ==
    {Lower(runs[i].e.sha256) :
        i \in {j \in 1..Len(runs) : HasPath(runs[j].e) /\ Lookable(runs[j].e.sha256)}}

\* every looked-up hash taken for a match
IocQueryAll(table, sha_set) == sha_set

\* select lower(col) where lower(col) in sha_list
IocQuery(table, sha_set) == {Lower(x) : x \in table} \cap sha_set

\* sha = (h["sha256"] or "").lower() if h["sha256"] else None; sha and sha in bad
RowMatches(row, bad) == STruthy(row.sha256) /\ Lower(row.sha256) \in bad

\* one call per matching hash instead of one per matching row
RECURSIVE CandidatesPerHash(_, _)
CandidatesPerHash(rows, bad) ==
    IF rows = << >> THEN << >>
    ELSE (IF RowMatches(rows[1].row, bad)
          THEN << [hostname |-> rows[1].row.hostname, category |-> "HASH",
                   description |-> << "HASH" >>,
                   file_path |-> rows[1].row.file_path,
                   sha256 |-> Lower(rows[1].row.sha256),
                   cpu |-> NoneNum, ram_ratio |-> NoneFrac] >>
          ELSE << >>)
         \o CandidatesPerHash(Tail(rows), bad \ {Lower(rows[1].row.sha256)})

\* one call per matched hash, naming the hash and no file
CandidatesWithoutFile(rows, bad) ==
    LET shas == {x \in bad : \E i \in 1..Len(rows) : RowMatches(rows[i].row, {x})}
        f == CHOOSE g \in [1..Cardinality(shas) -> shas] :
                 \A i, j \in 1..Cardinality(shas) : i # j => g[i] # g[j]
    IN  [i \in 1..Cardinality(shas) |->
            [hostname |-> rows[1].row.hostname, category |-> "HASH",
             description |-> << "HASH" >>, file_path |-> SNull, sha256 |-> f[i],
             cpu |-> NoneNum, ram_ratio |-> NoneFrac]]

\* the _insert_alert calls of the loop over rows, in order: one per matching row
RECURSIVE Candidates(_, _)
Candidates(rows, bad) ==
    IF rows = << >> THEN << >>
    ELSE (IF RowMatches(rows[1].row, bad)
          THEN [i \in 1..rows[1].n |->
                   [hostname |-> rows[1].row.hostname, category |-> "HASH",
                    description |-> << "HASH" >>,
                    file_path |-> rows[1].row.file_path,
                    sha256 |-> Lower(rows[1].row.sha256),
                    cpu |-> NoneNum, ram_ratio |-> NoneFrac]]
          ELSE << >>)
         \o Candidates(Tail(rows), bad)

\* the loop with a 24-hour suppression per (hostname, sha256)
RECURSIVE InsertAlertsDeduplicated(_, _, _, _)
InsertAlertsDeduplicated(tbl, cands, k, failing) ==
    IF k > Len(cands) THEN tbl
    ELSE LET seen == \E i \in 1..Len(tbl) :
                        /\ tbl[i].category = "HASH"
                        /\ tbl[i].hostname = cands[k].hostname
                        /\ tbl[i].sha256 = cands[k].sha256
                        /\ now - tbl[i].ts < 24 * 60 * 60
         IN  InsertAlertsDeduplicated(
                 IF seen THEN tbl ELSE InsertAlert(tbl, cands[k], k \in failing),
                 cands, k + 1, failing)

\* the loop given up at the first insert that fails
RECURSIVE InsertAlertsAbortOnFailure(_, _, _, _)
InsertAlertsAbortOnFailure(tbl, cands, k, failing) ==
    IF k > Len(cands) \/ k \in failing THEN tbl
    ELSE InsertAlertsAbortOnFailure(InsertAlert(tbl, cands[k], FALSE), cands, k + 1, failing)

\* the alert table after the calls cands[k..], those at the positions in failing fail
RECURSIVE InsertAlerts(_, _, _, _)
InsertAlerts(tbl, cands, k, failing) ==
    IF k > Len(cands) THEN tbl
    ELSE InsertAlerts(InsertAlert(tbl, cands[k], k \in failing), cands, k + 1, failing)

\* the parse block accepts the payload
HashesAccepted(body) ==
    /\ body.kind = "object"
    /\ body.hostname.t \in {"null", "str"}
    /\ Strip(HostOr(body.hostname, "")) # ""
    /\ HashesOrEmpty(body.hashes).t = "list"

\* the lookup made whether a table name is configured or not
IocConsultedUnconfigured(sha_set) == sha_set # {}

\* if sha_set and IOC_TABLE_NAME
IocConsulted(sha_set) == sha_set # {} /\ IOC_TABLE_NAME # ""

\* the alerts stored, the failed inserts left out
InsertedAlertsStored(cands, failing) == Cardinality((1..Len(cands)) \ failing)

\* inserted_alerts += 1 after each _insert_alert call, failed or not
InsertedAlerts(cands, failing) == Len(cands)

\* the rows inserted one statement at a time, the last of which fails
InsertRowsOneByOne(tbl, rows, fails) ==
    IF fails THEN tbl \o SubSeq(rows, 1, Len(rows) - 1) ELSE tbl \o rows

\* with engine.begin() as conn: conn.execute(insert(file_hashes), rows): the
\* table after the transaction, rolled back as a whole when the insert fails
InsertRows(tbl, rows, fails) == IF fails THEN tbl ELSE tbl \o rows

CollectHashes(body, faults) ==
    /\ req' = [op |-> "collect_hashes", body |-> body, faults |-> faults]
    /\ used' = Count("req")
    /\ UNCHANGED << agent, test_agent, now, _metrics_cache, _history_up, _history_down,
                    _history_cpu,
                    _history_ram, suspicious_hashes, IOC_TABLE_NAME, view, samples,
                    listing, readers, origin >>
    /\ IF ~HashesAccepted(body)
       THEN \* HTTPException 400 "Invalid JSON structure"
            /\ resp' = ErrorResp("collect_hashes", 400)
            /\ UNCHANGED << alerts, file_hashes, logs, disk, lookups >>
       ELSE LET hostname == Strip(HostOr(body.hostname, ""))
                json_path == SaveJsonPath(body.hostname)
                hashes == Truncate(HashesOrEmpty(body.hashes).runs)
                allDicts == \A i \in 1..Len(hashes) : hashes[i].e.t = "dict"
                rows == HashRows(hostname, hashes)
                sha_set == ShaSet(hashes)
                lookup == IocConsulted(sha_set)
                bad == IF lookup THEN IocQuery(suspicious_hashes, sha_set) ELSE {}
                cands == Candidates(rows, bad)
                stored == allDicts /\ ~(rows # << >> /\ faults.rows)
            IN  /\ disk' = SaveJsonDisk(body.hostname, faults.disk)
                /\ logs' = InsertLog(hostname, json_path, "HASH", faults.log)
                /\ lookups' = IF stored /\ lookup THEN lookups + 1 ELSE lookups
                /\ IF ~allDicts
                   THEN \* h.get raises AttributeError: unhandled, 500
                        /\ resp' = ErrorResp("collect_hashes", 500)
                        /\ UNCHANGED << alerts, file_hashes >>
                   ELSE IF rows # << >> /\ faults.rows
                   THEN \* HTTPException 500 "DB insert error"
                        /\ resp' = ErrorResp("collect_hashes", 500)
                        /\ file_hashes' = InsertRows(file_hashes, rows, TRUE)
                        /\ UNCHANGED alerts
                   ELSE /\ file_hashes' = InsertRows(file_hashes, rows, FALSE)
                        /\ IF lookup /\ faults.ioc
                           THEN \* HTTPException 500 "DB query error"
                                /\ resp' = ErrorResp("collect_hashes", 500)
                                /\ UNCHANGED alerts
                           ELSE /\ alerts' = InsertAlerts(alerts, cands, 1, faults.alert)
                                /\ resp' = [NoResp EXCEPT
                                              !.op = "collect_hashes", !.status = 200,
                                              !.ok = TRUE, !.saved_file = json_path,
                                              !.inserted_hash_rows = RunsLen(rows),
                                              !.alerts_created =
                                                  InsertedAlerts(cands, faults.alert)]

---------------------------------------------------------------------------
(* Initial states *)

\* no get_alerts call yet
NoListing == [status |-> 0, limit |-> 0, rows |-> << >>]

\* the worker threads that serve api_metrics (a def endpoint runs in the
\* thread pool), and a thread that serves no call
Threads == {1, 2}
Idle == [pc |-> "idle", id |-> 0, now |-> 0, items |-> << >>, servers |-> << >>,
         sample |-> [up |-> 0, down |-> 0, cpu |-> 0, ram |-> 0]]

NoView ==
    [now |-> 0, items |-> << >>, servers |-> << >>,
     history |-> [up |-> << >>, down |-> << >>, cpu |-> << >>, ram |-> << >>]]

---------------------------------------------------------------------------
(* The agent: metrics_loop *)

\* the local payload before the first collect_metrics call returns
NoPayload == [serial |-> 0, time_local |-> 0]

\* the thread as metrics_loop(server, interval) is entered: at the top of the
\* loop (pc), no iteration begun (tick), no sample taken (serial); posts is
\* the history of the requests.post calls, errors that of the printed lines
AgentStart(interval) ==
    [pc |-> "collect", interval |-> interval, clock |-> 0, tick |-> 0, serial |-> 0,
     payload |-> NoPayload, posts |-> << >>, errors |-> 0]

\* max(1, int(interval))
SleepSecs(interval) == IF interval > SLEEP_MIN THEN interval ELSE SLEEP_MIN

\* the failed sample kept and sent again
Retried(a) == [a EXCEPT !.pc = "send", !.errors = @ + 1]

\* except Exception as e: print("[METRICS ERROR]", e); on to the sleep
Caught(a) == [a EXCEPT !.pc = "sleep", !.errors = @ + 1]

\* the outcomes of requests.post and raise_for_status: a 2xx response; a
\* response with an error status; no connection; no response within the timeout
PostOutcomes == {"ok", "http_error", "connection_error", "timeout"}

\* how long the call took
PostSecs(outcome) == IF outcome = "timeout" THEN SEND_TIMEOUT ELSE 0

AgentFrame ==
    UNCHANGED << now, _metrics_cache, _history_up, _history_down, _history_cpu,
                 _history_ram, alerts, file_hashes, logs, disk, suspicious_hashes,
                 IOC_TABLE_NAME, req, resp, view, samples, used, listing, readers,
                 origin, lookups, test_agent >>

\* payload = collect_metrics(): a fresh sample, stamped iso_now(), or an
\* exception of psutil or socket
AgentCollect(raises) ==
    /\ agent.pc = "collect"
    /\ agent.tick < MaxAgentTicks
    /\ agent' =
          IF raises
          THEN Caught([agent EXCEPT !.tick = @ + 1])
          ELSE [agent EXCEPT !.tick = @ + 1, !.serial = @ + 1, !.pc = "send",
                             !.payload = [serial |-> agent.serial + 1,
                                          time_local |-> agent.clock]]
    /\ AgentFrame

\* send_metrics(server, payload): requests.post, then raise_for_status
AgentSend(outcome) ==
    /\ agent.pc = "send"
    /\ LET posted == [agent EXCEPT !.posts = Append(@, [serial |-> agent.payload.serial,
                                                        time_local |-> agent.payload.time_local,
                                                        at |-> agent.clock,
                                                        outcome |-> outcome]),
                                   !.clock = @ + PostSecs(outcome)]
       IN  agent' = IF outcome = "ok" THEN [posted EXCEPT !.pc = "sleep"]
                    ELSE Caught(posted)
    /\ AgentFrame

\* time.sleep(max(1, int(interval))), and back to the top of the loop
AgentSleep ==
    /\ agent.pc = "sleep"
    /\ agent' = [agent EXCEPT !.pc = "collect", !.clock = @ + SleepSecs(agent.interval)]
    /\ AgentFrame

---------------------------------------------------------------------------
(* The test agent: main() of test_agent.py *)

\* time.time() when main() is entered, seconds since the epoch
TEST_EPOCH == 1700000000

\* main() as its loop is entered, with --once and --hash as given: at the
\* metrics block (pc), last_hash_ts = 0.0; the other members are the history
\* of its calls: iterations begun (ticks), collect_metrics, send_metrics,
\* collect_file_hashes and send_hashes calls, and the requests posted
TestStart(once, hash_enable) ==
    [pc |-> "metrics", once |-> once, hash_enable |-> hash_enable,
     metrics_interval |-> TEST_METRICS_INTERVAL, hash_interval |-> TEST_HASH_INTERVAL,
     clock |-> TEST_EPOCH, last_hash_ts |-> 0, ticks |-> 0,
     collects |-> 0, sends |-> 0, scans |-> 0, hash_sends |-> 0, posts |-> << >>]

\* the outcomes of _post_json: a 2xx response; status 404; another error
\* status; no connection; no response within the timeout
TestOutcomes == {"ok", "http_404", "http_error", "connection_error", "timeout"}

\* send_metrics: the requests it posts, /collect-metrics first and
\* /collect-data when that one is answered 404
MetricPosts(first, second) ==
    << [url |-> "/collect-metrics", outcome |-> first] >>
    \o (IF first = "http_404" THEN << [url |-> "/collect-data", outcome |-> second] >>
        ELSE << >>)

\* range(0, len(hashes), chunk_size): the number of batches
Chunks(n) == (n + HASH_CHUNK - 1) \div HASH_CHUNK

\* send_hashes: the requests it posts for n entries, the failAt-th of which
\* fails (0: none); the first failure ends the call
RECURSIVE HashPosts(_, _, _)
HashPosts(k, chunks, failAt) ==
    IF k > chunks THEN << >>
    ELSE IF k = failAt THEN << [url |-> "/collect-hashes", outcome |-> "http_error"] >>
    ELSE << [url |-> "/collect-hashes", outcome |-> "ok"] >>
         \o HashPosts(k + 1, chunks, failAt)

\* the loop going round whether --once was given or not
SleepAlways(a) ==
    [a EXCEPT !.pc = "metrics",
              !.clock = @ + (IF a.metrics_interval > 1 THEN a.metrics_interval ELSE 1)]

\* if args.once: break; time.sleep(max(1, int(args.metrics_interval)))
BreakOrSleep(a) ==
    IF a.once THEN [a EXCEPT !.pc = "done"]
    ELSE [a EXCEPT !.pc = "metrics",
                   !.clock = @ + (IF a.metrics_interval > 1 THEN a.metrics_interval ELSE 1)]

TestFrame ==
    UNCHANGED << now, _metrics_cache, _history_up, _history_down, _history_cpu,
                 _history_ram, alerts, file_hashes, logs, disk, suspicious_hashes,
                 IOC_TABLE_NAME, req, resp, view, samples, used, listing, readers,
                 origin, lookups, agent >>

\* the metrics block: collect_metrics, then send_metrics, any exception printed
TestMetrics(raises, first, second) ==
    /\ test_agent.pc = "metrics"
    /\ test_agent.ticks < MaxTestTicks
    /\ test_agent' =
          IF raises
          THEN [test_agent EXCEPT !.pc = "hash", !.ticks = @ + 1, !.collects = @ + 1]
          ELSE [test_agent EXCEPT !.pc = "hash", !.ticks = @ + 1, !.collects = @ + 1,
                                  !.sends = @ + 1,
                                  !.posts = @ \o MetricPosts(first, second)]
    /\ TestFrame

\* the hash block: skipped unless hashing is enabled and --once was given or
\* the hash interval has passed; a scan returning n entries, or raising; the
\* entries sent if there are any; last_hash_ts = now
TestHash(raises, n, failAt) ==
    /\ test_agent.pc = "hash"
    /\ test_agent' =
          IF test_agent.hash_enable
             /\ (test_agent.once
                 \/ test_agent.clock - test_agent.last_hash_ts >= test_agent.hash_interval)
          THEN IF raises \/ n = 0
               THEN [test_agent EXCEPT !.pc = "break", !.scans = @ + 1,
                                       !.last_hash_ts = test_agent.clock]
               ELSE [test_agent EXCEPT !.pc = "break", !.scans = @ + 1,
                                       !.hash_sends = @ + 1,
                                       !.posts = @ \o HashPosts(1, Chunks(n), failAt),
                                       !.last_hash_ts = test_agent.clock]
          ELSE [test_agent EXCEPT !.pc = "break"]
    /\ TestFrame

\* the end of the iteration
TestBreakOrSleep ==
    /\ test_agent.pc = "break"
    /\ test_agent' = BreakOrSleep(test_agent)
    /\ TestFrame

\* module load: empty cache and deques, empty alerts, file_hashes and logs
\* tables; ioc_name is the environment's IOC_TABLE_NAME ("" when unset) and
\* table the content of the table suspicious_hashes is bound to
LoadedServer(ioc_name, table) ==
    /\ now = 0
    /\ _metrics_cache = << >>
    /\ _history_up = << >>
    /\ _history_down = << >>
    /\ _history_cpu = << >>
    /\ _history_ram = << >>
    /\ alerts = << >>
    /\ file_hashes = << >>
    /\ logs = << >>
    /\ disk = {}
    /\ suspicious_hashes = table
    /\ IOC_TABLE_NAME = ioc_name
    /\ req = NoReq
    /\ resp = NoResp
    /\ view = NoView
    /\ samples = << >>
    /\ used = [req |-> 0, tick |-> 0, read |-> 0]
    /\ listing = NoListing
    /\ readers = [t \in Threads |-> Idle]
    /\ origin = [up |-> << >>, down |-> << >>, cpu |-> << >>, ram |-> << >>]
    /\ lookups = 0

\* the server loaded, an agent started with the default interval and a
\* test agent with its default arguments
Loaded(ioc_name, table) ==
    /\ LoadedServer(ioc_name, table)
    /\ agent = AgentStart(METRICS_INTERVAL_DEFAULT)
    /\ test_agent = TestStart(FALSE, TRUE)

\* the default environment: IOC_TABLE_NAME unset, the internal table created empty
Init == Loaded("", {})

---------------------------------------------------------------------------
(* Inputs: metric payloads *)

Metric(hostname, cpu, ramTotal, ramUsed) ==
    [kind |-> "object", hostname |-> hostname, ip |-> "", ip_address |-> "10.0.0.1",
     cpu |-> cpu, ramTotal |-> ramTotal, ramUsed |-> ramUsed,
     diskTotal |-> JNum(500), diskUsed |-> JNum(100),
     netIn |-> JNull, netOut |-> JNull]

InvalidJson == [kind |-> "invalid"]
NonObject == [kind |-> "nonobject"]

H1 == HStr("h1")
H2 == HStr("h2")

\* Scenario A of the specification: cpu 95, ram 95/100
MetricBoth == Metric(H1, JNum(95), JNum(100), JNum(95))
MetricCalm == Metric(H1, JNum(50), JNum(100), JNum(50))
MetricNoRam == Metric(H2, JNum(10), JNum(0), JNum(50))

FleetBodies == {MetricBoth, MetricCalm, MetricNoRam}

IngestBodies ==
    { InvalidJson, NonObject, MetricBoth, MetricCalm, MetricNoRam,
      Metric(H1, JNum(90), JNum(100), JNum(10)),
      Metric(H1, JNum(89), JNum(100), JNum(90)),
      Metric(H1, JNum(89), JNum(100), JNum(89)),
      Metric(H2, JNull, JNull, JNull),
      Metric(HNull, JNum(95), JNull, JNull),
      Metric(H1, JNumStr(95), JNum(100), JNum(10)),
      Metric(H1, JText(3), JNum(100), JNum(10)),
      Metric(H1, JNum(10), JList(1), JNum(10)),
      Metric(H1, JNum(10), JNum(100), JText(3)),
      [Metric(H1, JNum(10), JNum(100), JNum(10)) EXCEPT !.netIn = JText(3)],
      [Metric(H1, JNum(10), JNum(100), JNum(10)) EXCEPT !.netOut = JText(3)],
      [Metric(H1, JNum(10), JNum(100), JNum(10)) EXCEPT !.diskTotal = JText(3)],
      [Metric(H1, JNum(10), JNum(100), JNum(10)) EXCEPT !.diskUsed = JList(2)] }

IngestFaults ==
    { NoFaults, [NoFaults EXCEPT !.log = TRUE], [NoFaults EXCEPT !.disk = TRUE],
      [NoFaults EXCEPT !.alert = {1}] }

TickSteps == {1, STALE_SECS}

---------------------------------------------------------------------------
(* Specification Spec: ingestion of well-formed reports, the clock and the  *)
(* fleet view                                                              *)

Next ==
    \/ /\ used.req < MaxRequests
       /\ \E b \in FleetBodies : CollectMetrics(b, NoFaults)
    \/ /\ used.tick < MaxTicks
       /\ \E d \in TickSteps : Tick(d)
    \/ /\ used.read < MaxReads
       /\ ApiMetrics

Spec == Init /\ [][Next]_vars

(* Specification SpecIngest: metric ingestion of any payload, with faults *)

NextIngest ==
    /\ used.req < MaxIngest
    /\ \E b \in IngestBodies, f \in IngestFaults : CollectMetrics(b, f)

SpecIngest == Init /\ [][NextIngest]_vars

(* Specification SpecHistory: more reads than the deques hold *)

NextHistory ==
    \/ /\ used.read < METRICS_HISTORY_LEN + ExtraReads
       /\ ApiMetrics
    \/ /\ used.req < MaxHistRequests
       /\ CollectMetrics(MetricBoth, NoFaults)
    \/ /\ used.tick < MaxHistRequests
       /\ Tick(STALE_SECS + 1)

SpecHistory == Init /\ [][NextHistory]_vars

---------------------------------------------------------------------------
(* Inputs: hash batches *)

\* a known-bad sha256 in lower case, the same in upper case, a clean one, a
\* 32-character hash, a string of 64 digits and the integer of those digits
ShaBad == SStr("bad", FALSE, 64)
ShaBadUpper == SStr("bad", TRUE, 64)
ShaClean == SStr("clean", FALSE, 64)
ShaShort == SStr("bad", FALSE, 32)
ShaDigits == SStr("1", FALSE, 64)
ShaInt == SInt("1", 64)
\* 64 characters that are not hexadecimal digits
ShaNotHex == SStr("g", FALSE, 64)

PathA == SStr("/a", FALSE, 2)
PathB == SStr("/b", FALSE, 2)
PathLong == SStr("/long", FALSE, 2000)
PathEmpty == SStr("", FALSE, 0)

Run(e, n) == [e |-> e, n |-> n]

Batch(hostname, hashes) == [kind |-> "object", hostname |-> hostname, hashes |-> hashes]

\* Scenario C of the specification: one file with a known-bad hash
BatchBad == Batch(H1, HList(<< Run(Entry(PathA, ShaBad), 1) >>))
\* two files sharing one bad hash, reported in different letter case
BatchShared ==
    Batch(H1, HList(<< Run(Entry(PathA, ShaBadUpper), 1), Run(Entry(PathB, ShaBad), 1),
                       Run(Entry(PathB, ShaClean), 1) >>))
\* entries without a file_path, one of them with a bad hash
BatchNoPath ==
    Batch(H1, HList(<< Run(Entry(SNull, ShaBad), 1), Run(Entry(PathA, ShaClean), 2),
                       Run(Entry(PathEmpty, ShaClean), 1) >>))
BatchOnlyNoPath == Batch(H2, HList(<< Run(Entry(PathEmpty, ShaBad), 2) >>))
\* Scenario D: more than MAX_ROWS entries, a bad hash past the limit
BatchOver ==
    Batch(H1, HList(<< Run(Entry(PathB, ShaClean), MAX_ROWS), Run(Entry(PathA, ShaBad), 1) >>))
\* the limit falls inside a run, after entries without a file_path
BatchEdge ==
    Batch(H2, HList(<< Run(Entry(SNull, ShaClean), 2), Run(Entry(PathB, ShaClean), MAX_ROWS - 3),
                       Run(Entry(PathA, ShaBad), 2) >>))
BatchLongPath == Batch(H1, HList(<< Run(Entry(PathLong, ShaBad), 1) >>))
BatchOddSha ==
    Batch(H1, HList(<< Run(Entry(PathA, ShaShort), 1), Run(Entry(PathB, SNull), 1),
                       Run(Entry(PathB, ShaInt), 1), Run(Entry(PathA, ShaDigits), 1) >>))
BatchNotHex == Batch(H1, HList(<< Run(Entry(PathA, ShaNotHex), 1) >>))
BatchNonDict == Batch(H1, HList(<< Run(Entry(PathA, ShaBad), 1), Run(NonDictEntry, 1) >>))
BatchPadded == Batch(HStr(" h1 "), HList(<< Run(Entry(PathA, ShaBad), 1) >>))

HashBodies ==
    { BatchBad, BatchShared, BatchNoPath, BatchOnlyNoPath, BatchOver, BatchEdge,
      BatchLongPath, BatchOddSha, BatchNotHex, BatchNonDict, BatchPadded,
      InvalidJson, NonObject,
      Batch(H1, HAbsent), Batch(H1, HOther("dict", 0)), Batch(H1, HOther("text", 3)),
      Batch(H1, HList(<< >>)),
      Batch(HNull, HList(<< Run(Entry(PathA, ShaBad), 1) >>)),
      Batch(HStr("  "), HList(<< Run(Entry(PathA, ShaBad), 1) >>)),
      Batch(HNum, HList(<< Run(Entry(PathA, ShaBad), 1) >>)) }

\* every payload without faults, and each fault on a batch that reaches it
HashRequests ==
    [body : HashBodies, faults : {NoFaults}]
    \cup [body : {BatchBad},
          faults : { [NoFaults EXCEPT !.rows = TRUE], [NoFaults EXCEPT !.ioc = TRUE],
                     [NoFaults EXCEPT !.log = TRUE], [NoFaults EXCEPT !.disk = TRUE] }]
    \cup [body : {BatchShared},
          faults : { [NoFaults EXCEPT !.alert = {1}], [NoFaults EXCEPT !.alert = {2}] }]

\* the environments: IOC_TABLE_NAME set or unset, and the table's content
IocConfigs ==
    { [name |-> "ioc", table |-> {ShaBad}],
      [name |-> "ioc", table |-> {ShaBadUpper, ShaDigits, ShaNotHex}],
      [name |-> "ioc", table |-> {}],
      [name |-> "", table |-> {ShaBad}] }

HALF_DAY == 12 * 60 * 60

(* Specification SpecHashes: hash batches of any payload, with faults, under *)
(* each environment                                                         *)

InitHashes == \E c \in IocConfigs : Loaded(c.name, c.table)

NextHashes ==
    \/ /\ used.req < MaxBatches
       /\ \E r \in HashRequests : CollectHashes(r.body, r.faults)
    \/ /\ used.tick < MaxHashTicks
       /\ Tick(HALF_DAY)

SpecHashes == InitHashes /\ [][NextHashes]_vars

(* Specification SpecMtime: hash batches whose entries carry an mtime *)

MtimeValues ==
    { MAbsent, MNull, MEmpty, MNum(0), MNum(1700000000), MGarbage(""), MGarbage("Z"),
      MIso(100, "Z", 0), MIso(100, "", 0), MIso(100, "off", 2), MIso(100, "off", -5),
      MIso(0, "off", 5), MIso(DATETIME_MAX, "off", -1), MIso(0, "Z", 0) }

\* four files of one scan: no mtime, an unreadable one, one in Z and one
\* without offset; and an entry without file_path
BatchMtimes ==
    Batch(H1, HList(<< Run(EntryAt(PathA, ShaClean, MAbsent), 1),
                       Run(EntryAt(PathB, ShaClean, MGarbage("")), 1),
                       Run(EntryAt(SNull, ShaClean, MIso(100, "Z", 0)), 1),
                       Run(EntryAt(PathA, ShaBad, MIso(100, "Z", 0)), 1),
                       Run(EntryAt(PathB, SNull, MIso(100, "", 0)), 1) >>))

MtimeBodies ==
    {Batch(H1, HList(<< Run(EntryAt(PathA, ShaClean, m), 1) >>)) : m \in MtimeValues}
    \cup {BatchMtimes}

NextMtime ==
    /\ used.req < MaxMtimeBatches
    /\ \E b \in MtimeBodies : CollectHashes(b, NoFaults)

SpecMtime == Loaded("ioc", {ShaBad}) /\ [][NextMtime]_vars

(* Specification SpecAgent: the agent's metrics loop, under any outcome of   *)
(* its collections and its posts; the thread is scheduled as long as it runs *)

AgentIntervals == {0, METRICS_INTERVAL_DEFAULT}

InitAgent ==
    /\ LoadedServer("", {})
    /\ agent \in {AgentStart(i) : i \in AgentIntervals}
    /\ test_agent = TestStart(FALSE, TRUE)

NextAgent ==
    \/ \E raises \in BOOLEAN : AgentCollect(raises)
    \/ \E outcome \in PostOutcomes : AgentSend(outcome)
    \/ AgentSleep

SpecAgent == InitAgent /\ [][NextAgent]_vars /\ WF_vars(NextAgent)

(* Specification SpecTestAgent: the test agent with and without --once and *)
(* --hash, under any outcome of its collections, scans and posts            *)

\* how many entries a scan returns: none, one batch, two batches
ScanSizes == {0, 1, HASH_CHUNK + 1}

InitTestAgent ==
    /\ LoadedServer("", {})
    /\ agent = AgentStart(METRICS_INTERVAL_DEFAULT)
    /\ test_agent \in {TestStart(once, h) : once \in BOOLEAN, h \in BOOLEAN}

NextTestAgent ==
    \/ \E raises \in BOOLEAN : \E first, second \in TestOutcomes :
          TestMetrics(raises, first, second)
    \/ \E raises \in BOOLEAN : \E n \in ScanSizes : \E failAt \in 0..2 :
          TestHash(raises, n, failAt)
    \/ TestBreakOrSleep

SpecTestAgent == InitTestAgent /\ [][NextTestAgent]_vars /\ WF_vars(NextTestAgent)

---------------------------------------------------------------------------
(* GET /api/alerts *)

\* the limit parameter of a request: absent, or an integer
NoLimit == [t |-> "absent", v |-> 0]
Limit(n) == [t |-> "int", v |-> n]

\* limit: int = Query(50, ...)
LimitOrDefault(l) == IF l.t = "absent" THEN LIMIT_DEFAULT ELSE l.v

\* the rows in the order of their id, lowest first
OrderByIdAsc(tbl) == tbl

\* order_by(desc(alerts.c.id)): the table is held in id order
OrderByIdDesc(tbl) == [i \in 1..Len(tbl) |-> tbl[Len(tbl) - i + 1]]

\* .limit(limit)
TakeLimit(rows, limit) == SubSeq(rows, 1, IF limit < Len(rows) THEN limit ELSE Len(rows))

\* fails: the select raises a storage error
GetAlerts(l, fails) ==
    LET limit == LimitOrDefault(l) IN
    /\ listing' =
          IF limit < LIMIT_MIN \/ limit > LIMIT_MAX
          THEN \* rejected by the validation of the query parameter
               [status |-> 422, limit |-> limit, rows |-> << >>]
          ELSE IF fails
          THEN \* HTTPException 500 "DB error"
               [status |-> 500, limit |-> limit, rows |-> << >>]
          ELSE [status |-> 200, limit |-> limit,
                rows |-> TakeLimit(OrderByIdDesc(alerts), limit)]
    /\ used' = Count("read")
    /\ UNCHANGED << agent, test_agent, now, _metrics_cache, _history_up, _history_down,
                    _history_cpu,
                    _history_ram, alerts, file_hashes, logs, disk, suspicious_hashes,
                    IOC_TABLE_NAME, req, resp, view, samples, readers, origin,
                    lookups >>

(* GET /api/logs *)

\* fails: the select raises a storage error
GetLogs(l, fails) ==
    LET limit == LimitOrDefault(l) IN
    /\ listing' =
          IF limit < LIMIT_MIN \/ limit > LIMIT_MAX
          THEN [status |-> 422, limit |-> limit, rows |-> << >>]
          ELSE IF fails
          THEN [status |-> 500, limit |-> limit, rows |-> << >>]
          ELSE [status |-> 200, limit |-> limit,
                rows |-> TakeLimit(OrderByIdDesc(logs), limit)]
    /\ used' = Count("read")
    /\ UNCHANGED << agent, test_agent, now, _metrics_cache, _history_up, _history_down,
                    _history_cpu,
                    _history_ram, alerts, file_hashes, logs, disk, suspicious_hashes,
                    IOC_TABLE_NAME, req, resp, view, samples, readers, origin,
                    lookups >>

(* Specification SpecOperations: every operation of the collector, the IOC  *)
(* table holding one hash                                                   *)

NextOperations ==
    \/ /\ used.req < MaxOpRequests
       /\ CollectMetrics(MetricBoth, NoFaults)
    \/ /\ used.req < MaxOpRequests
       /\ \E b \in {BatchBad, BatchShared} : CollectHashes(b, NoFaults)
    \/ /\ used.read < MaxOpReads
       /\ ApiMetrics
    \/ /\ used.read < MaxOpReads
       /\ \E fails \in BOOLEAN : GetAlerts(Limit(1), fails)
    \/ /\ used.read < MaxOpReads
       /\ \E fails \in BOOLEAN : GetLogs(NoLimit, fails)
    \/ /\ used.tick < MaxOpTicks
       /\ Tick(1)

SpecOperations == Loaded("ioc", {ShaBad}) /\ [][NextOperations]_vars

(* Specification SpecAlerts: breaching reports of two hosts, some alert     *)
(* inserts failing, and alert listings                                      *)

MetricHot == Metric(H2, JNum(99), JNum(100), JNum(10))

Limits == {NoLimit, Limit(0), Limit(1), Limit(2), Limit(LIMIT_MAX), Limit(LIMIT_MAX + 1)}

NextAlerts ==
    \/ /\ used.req < MaxAlertRequests
       /\ \E b \in {MetricBoth, MetricHot}, f \in {NoFaults, [NoFaults EXCEPT !.alert = {1}]} :
             CollectMetrics(b, f)
    \/ /\ used.tick < MaxAlertTicks
       /\ Tick(1)
    \/ /\ used.read < MaxListings
       /\ \E l \in Limits, fails \in BOOLEAN : GetAlerts(l, fails)

SpecAlerts == Init /\ [][NextAlerts]_vars

---------------------------------------------------------------------------
(* GET /api/metrics on the worker threads                                   *)
(*                                                                          *)
(* api_metrics is a plain def: the framework runs each call on a thread of  *)
(* its pool, so calls overlap, a thread switch being possible between any   *)
(* two statements; nothing in the function takes a lock. collect_metrics is *)
(* an async def with no await after request.json(): from line 195 on it     *)
(* runs on the event loop without suspension, one request at a time, and is *)
(* one step here (CollectMetrics). A step of a reader is one statement that *)
(* touches shared state: list(_metrics_cache.items()) with the loop over    *)
(* its copy, each of the four appends, and the return that reads the deques.*)

\* lines 377-408: now, the copy of the cache, the loop and the averages; a call
\* is served by the first thread that is free (which one makes no difference)
ReadBegin(t) ==
    LET s == FleetSample(_metrics_cache) IN
    /\ readers[t].pc = "idle"
    /\ \A u \in Threads : u < t => readers[u].pc # "idle"
    /\ readers' = [readers EXCEPT ![t] =
          [pc |-> "up", id |-> used.read + 1, now |-> now, items |-> _metrics_cache,
           servers |-> [i \in 1..Len(_metrics_cache) |-> ServerRow(_metrics_cache[i])],
           sample |-> s]]
    /\ samples' = Append(samples, s)
    /\ used' = Count("read")
    /\ UNCHANGED << agent, test_agent, now, _metrics_cache, _history_up, _history_down,
                    _history_cpu,
                    _history_ram, alerts, file_hashes, logs, disk, suspicious_hashes,
                    IOC_TABLE_NAME, req, resp, view, listing, origin, lookups >>

\* what a step of a reader between its begin and its return leaves alone
ReaderFrame ==
    UNCHANGED << agent, test_agent, now, _metrics_cache, alerts, file_hashes, logs, disk,
                 suspicious_hashes, IOC_TABLE_NAME, req, resp, view, samples, used,
                 listing, lookups >>

\* line 409: _history_up.append(up_count)
HistoryUp(t) ==
    /\ readers[t].pc = "up"
    /\ _history_up' = DequeAppend(_history_up, readers[t].sample.up)
    /\ origin' = [origin EXCEPT !.up = DequeAppend(@, readers[t].id)]
    /\ readers' = [readers EXCEPT ![t].pc = "down"]
    /\ ReaderFrame
    /\ UNCHANGED << _history_down, _history_cpu, _history_ram >>

\* line 410: _history_down.append(down_count)
HistoryDown(t) ==
    /\ readers[t].pc = "down"
    /\ _history_down' = DequeAppend(_history_down, readers[t].sample.down)
    /\ origin' = [origin EXCEPT !.down = DequeAppend(@, readers[t].id)]
    /\ readers' = [readers EXCEPT ![t].pc = "cpu"]
    /\ ReaderFrame
    /\ UNCHANGED << _history_up, _history_cpu, _history_ram >>

\* line 411: _history_cpu.append(round(avg_cpu, 2))
HistoryCpu(t) ==
    /\ readers[t].pc = "cpu"
    /\ _history_cpu' = DequeAppend(_history_cpu, readers[t].sample.cpu)
    /\ origin' = [origin EXCEPT !.cpu = DequeAppend(@, readers[t].id)]
    /\ readers' = [readers EXCEPT ![t].pc = "ram"]
    /\ ReaderFrame
    /\ UNCHANGED << _history_up, _history_down, _history_ram >>

\* line 412: _history_ram.append(round(avg_ram, 2))
HistoryRam(t) ==
    /\ readers[t].pc = "ram"
    /\ _history_ram' = DequeAppend(_history_ram, readers[t].sample.ram)
    /\ origin' = [origin EXCEPT !.ram = DequeAppend(@, readers[t].id)]
    /\ readers' = [readers EXCEPT ![t].pc = "return"]
    /\ ReaderFrame
    /\ UNCHANGED << _history_up, _history_down, _history_cpu >>

\* line 414: the response, with copies of the four deques as they are now
ReadReturn(t) ==
    /\ readers[t].pc = "return"
    /\ view' = [now |-> readers[t].now, items |-> readers[t].items,
                servers |-> readers[t].servers,
                history |-> [up |-> _history_up, down |-> _history_down,
                             cpu |-> _history_cpu, ram |-> _history_ram]]
    /\ readers' = [readers EXCEPT ![t] = Idle]
    /\ UNCHANGED << agent, test_agent, now, _metrics_cache, _history_up, _history_down,
                    _history_cpu,
                    _history_ram, alerts, file_hashes, logs, disk, suspicious_hashes,
                    IOC_TABLE_NAME, req, resp, samples, used, listing, origin,
                    lookups >>

(* Specification SpecConcurrent: two reader threads and the ingestion of    *)
(* reports of two hosts                                                     *)

ConcBodies == {MetricBoth, MetricCalm, MetricNoRam}

NextConcurrent ==
    \/ /\ used.req < MaxConcRequests
       /\ \E b \in ConcBodies : CollectMetrics(b, NoFaults)
    \/ /\ used.read < MaxConcReads
       /\ \E t \in Threads : ReadBegin(t)
    \/ \E t \in Threads : HistoryUp(t)
    \/ \E t \in Threads : HistoryDown(t)
    \/ \E t \in Threads : HistoryCpu(t)
    \/ \E t \in Threads : HistoryRam(t)
    \/ \E t \in Threads : ReadReturn(t)

SpecConcurrent == Init /\ [][NextConcurrent]_vars

---------------------------------------------------------------------------
(* Specification SpecHostname: reports whose hostname is missing, empty,    *)
(* blank, padded or plain                                                   *)

HostnameBodies ==
    { Metric(HNull, JNum(95), JNum(100), JNum(10)),
      Metric(HStr(""), JNum(50), JNum(100), JNum(50)),
      Metric(HStr("  "), JNum(50), JNum(100), JNum(50)),
      Metric(HStr(" h1 "), JNum(95), JNum(100), JNum(95)),
      MetricBoth }

NextHostname ==
    /\ used.req < MaxHostRequests
    /\ \E b \in HostnameBodies : CollectMetrics(b, NoFaults)

SpecHostname == Init /\ [][NextHostname]_vars

---------------------------------------------------------------------------
(* Specification SpecRam: reports whose ramTotal is positive, zero, negative, *)
(* the string "0" or missing, and the fleet view over them                   *)

RamBodies ==
    { Metric(H1, JNum(10), JNum(100), JNum(95)),
      Metric(H1, JNum(10), JNum(10), JNum(9)),
      Metric(H1, JNum(10), JNum(3), JNum(1)),
      Metric(H2, JNum(10), JNum(0), JNum(50)),
      Metric(H2, JNum(10), JNumStr(0), JNum(50)),
      Metric(H2, JNum(10), JNull, JNum(50)),
      Metric(H2, JNum(10), JNum(-100), JNum(-95)) }

NextRam ==
    \/ /\ used.req < MaxRamRequests
       /\ \E b \in RamBodies : CollectMetrics(b, NoFaults)
    \/ /\ used.read < MaxRamReads
       /\ ApiMetrics

SpecRam == Init /\ [][NextRam]_vars

---------------------------------------------------------------------------
(* Specification SpecStorage: metric reports and hash batches under storage *)
(* faults, the IOC table holding one hash                                   *)

MetricBadCpu == Metric(H1, JText(3), JNum(100), JNum(10))

StorageMetrics == {MetricBoth, MetricBadCpu, NonObject}

StorageBatches ==
    { BatchBad, BatchShared, BatchNonDict,
      Batch(HNull, HList(<< Run(Entry(PathA, ShaBad), 1) >>)) }

StorageFaults ==
    { NoFaults, [NoFaults EXCEPT !.log = TRUE], [NoFaults EXCEPT !.disk = TRUE],
      [NoFaults EXCEPT !.log = TRUE, !.disk = TRUE],
      [NoFaults EXCEPT !.rows = TRUE], [NoFaults EXCEPT !.ioc = TRUE],
      [NoFaults EXCEPT !.alert = {1}], [NoFaults EXCEPT !.alert = {1, 2}] }

InitStorage == Loaded("ioc", {ShaBad})

NextStorage ==
    \/ /\ used.req < MaxStorageRequests
       /\ \E b \in StorageMetrics, f \in StorageFaults : CollectMetrics(b, f)
    \/ /\ used.req < MaxStorageRequests
       /\ \E b \in StorageBatches, f \in StorageFaults : CollectHashes(b, f)

SpecStorage == InitStorage /\ [][NextStorage]_vars

---------------------------------------------------------------------------
(* Claims on the fleet view and on metric ingestion *)

\* C1: in every fleet-view read each cached host is reported "up" exactly when
\* its age, now - observed_at, is at most STALE_SECS (an age equal to the
\* threshold is "up") and "down" otherwise; the status stored in the cache is
\* not consulted.
C1_StatusByAge ==
    /\ Len(view.servers) = Len(view.items)
    /\ \A i \in 1..Len(view.servers) :
          /\ view.servers[i].status \in {"up", "down"}
          /\ view.servers[i].status = "up"
                <=> view.now - view.items[i].val.ts <= STALE_SECS

\* a read that reports a host aged exactly STALE_SECS and one aged STALE_SECS + 1
C1_Witness ==
    /\ \E i \in 1..Len(view.servers) :
          /\ view.now - view.items[i].val.ts = STALE_SECS
          /\ view.items[i].val.status = "up"
          /\ view.servers[i].status = "up"
    /\ \E i \in 1..Len(view.servers) :
          /\ view.now - view.items[i].val.ts = STALE_SECS + 1
          /\ view.items[i].val.status = "up"
          /\ view.servers[i].status = "down"

Min(a, b) == IF a < b THEN a ELSE b

\* the last n elements of s
LastN(s, n) == SubSeq(s, Len(s) - n + 1, Len(s))

\* C2: after k fleet-view reads each of the four history buffers holds the last
\* min(k, 20) samples of the k reads, oldest first, and so never more than 20;
\* the history returned by the last read is those buffers.
C2_HistoryWindow ==
    LET k == Len(samples)
        kept == LastN(samples, Min(k, 20))
    IN  /\ Len(_history_up) <= 20 /\ Len(_history_down) <= 20
        /\ Len(_history_cpu) <= 20 /\ Len(_history_ram) <= 20
        /\ _history_up = [i \in 1..Len(kept) |-> kept[i].up]
        /\ _history_down = [i \in 1..Len(kept) |-> kept[i].down]
        /\ _history_cpu = [i \in 1..Len(kept) |-> kept[i].cpu]
        /\ _history_ram = [i \in 1..Len(kept) |-> kept[i].ram]
        /\ k > 0 => view.history = [up |-> _history_up, down |-> _history_down,
                                    cpu |-> _history_cpu, ram |-> _history_ram]

\* the oldest sample has been evicted, and it differs from the oldest one kept
C2_Witness ==
    /\ Len(samples) = METRICS_HISTORY_LEN + 1
    /\ samples[1] # samples[2]
    /\ samples[Len(samples) - 1] # samples[Len(samples)]
    /\ Len(view.history.up) = METRICS_HISTORY_LEN

\* the step is a collect_metrics request answered with status 200
MetricsOk == used'.req = used.req + 1 /\ resp'.op = "collect_metrics" /\ resp'.status = 200

\* the thresholds, on the snapshot a request stored for hostname h
Breaching(h) ==
    LET m == DictGet(_metrics_cache', h)
    IN  \/ m.cpu >= 90
        \/ m.ramTotal > 0 /\ 10 * m.ramUsed >= 9 * m.ramTotal

\* the alerts a step added
Added == SubSeq(alerts', Len(alerts) + 1, Len(alerts'))

\* C3 as stated: a metric ingestion creates a RESOURCE alert iff cpu >= CPU_HIGH
\* or ram_ratio >= RAM_RATIO_HIGH, and a breaching ingestion creates exactly one
\* alert row.
C3_OneAlertPerBreach ==
    [][MetricsOk =>
         LET h == HostOr(req'.body.hostname, "unknown")
         IN  /\ Len(alerts') = Len(alerts) + (IF Breaching(h) THEN 1 ELSE 0)
             /\ SubSeq(alerts', 1, Len(alerts)) = alerts]_vars

\* C3, amended: a metric ingestion creates a RESOURCE alert row iff cpu >= CPU_HIGH
\* or ram_ratio >= RAM_RATIO_HIGH and the alert insert does not fail with a
\* storage error; it then creates exactly one row, of category RESOURCE and for
\* the reporting host, whatever alerts the table already holds (no suppression,
\* no coalescing); a request not answered with 200 creates none.
C3_OneAlertPerBreachUnlessInsertFails ==
    [][used'.req = used.req + 1 /\ resp'.op = "collect_metrics" =>
         /\ SubSeq(alerts', 1, Len(alerts)) = alerts
         /\ IF resp'.status = 200
            THEN LET h == HostOr(req'.body.hostname, "unknown")
                 IN  IF Breaching(h) /\ 1 \notin req'.faults.alert
                     THEN /\ Len(Added) = 1
                          /\ Added[1].category = "RESOURCE"
                          /\ Added[1].hostname = h
                          /\ Added[1].id = Len(alerts) + 1
                     ELSE Added = << >>
            ELSE Added = << >>]_vars

\* two breaching ingestions of one host have left two alert rows
C3_Witness ==
    /\ Len(alerts) = 2
    /\ alerts[1].category = "RESOURCE" /\ alerts[2].category = "RESOURCE"
    /\ alerts[1].hostname = alerts[2].hostname
    /\ alerts[1].cpu = alerts[2].cpu
    /\ resp.op = "collect_metrics" /\ resp.resource_alerted

\* C10 as stated: whatever the values of cpu, ramTotal, ramUsed, diskTotal,
\* diskUsed, netIn and netOut of a metric payload, missing or non-numeric ones
\* included, the request succeeds (ok: true) and the cache holds the report.
C10_NonNumericCoercedToZero ==
    (resp.op = "collect_metrics" /\ req.body.kind = "object") =>
        /\ resp.status = 200 /\ resp.ok
        /\ DictHas(_metrics_cache, HostOr(req.body.hostname, "unknown"))

---------------------------------------------------------------------------
(* Claims on hash ingestion *)

DAY == 24 * 60 * 60

\* the step is a collect_hashes request
HashStep == used'.req = used.req + 1 /\ resp'.op = "collect_hashes"

\* the file_hashes rows a step added, run-length coded
AddedRows == SubSeq(file_hashes', Len(file_hashes) + 1, Len(file_hashes'))

RECURSIVE SumFn(_, _)
SumFn(f, S) ==
    IF S = {} THEN 0
    ELSE LET x == CHOOSE y \in S : TRUE IN f[x] + SumFn(f, S \ {x})

Max(a, b) == IF a > b THEN a ELSE b

\* how many of the n entries of run i of a reported list lie at positions 1..20000
KeptOf(runs, i) ==
    LET before == SumFn([j \in 1..Len(runs) |-> runs[j].n], 1..(i - 1))
    IN  Max(0, Min(runs[i].n, 20000 - before))

\* the entry is an object with a non-empty file_path
Pathful(e) == e.t = "dict" /\ e.file_path.t = "str" /\ e.file_path.len > 0

\* the entry's file_path as stored: its first 1024 characters
StoredPath(e) == IF e.file_path.len > 1024 THEN [e.file_path EXCEPT !.len = 1024] ELSE e.file_path

\* the hashes of the IOC table, in lower case
KnownBad == {[x EXCEPT !.up = FALSE] : x \in suspicious_hashes}

C5_OnlyKnownBad ==
    [][HashStep =>
         \A k \in 1..Len(Added) :
            /\ Added[k].category = "HASH"
            /\ Added[k].sha256 \in KnownBad
            /\ Added[k].sha256.len = 64
            /\ \E i \in 1..Len(req'.body.hashes.runs) :
                  LET e == req'.body.hashes.runs[i].e
                  IN  /\ Pathful(e)
                      /\ e.sha256.t # "null"
                      /\ Added[k].file_path = StoredPath(e)
                      /\ Added[k].sha256 = [e.sha256 EXCEPT !.up = FALSE, !.t = "str"]
                      /\ Added[k].hostname = Strip(req'.body.hostname.s)]_vars

\* a batch reporting a clean and a bad hash has stored an alert, for the bad one
C5_Witness ==
    /\ resp.op = "collect_hashes" /\ resp.status = 200
    /\ \E i \in 1..Len(req.body.hashes.runs) :
          req.body.hashes.runs[i].e.sha256 = ShaClean /\ Pathful(req.body.hashes.runs[i].e)
    /\ Len(alerts) > 0
    /\ alerts[Len(alerts)].ts = now
    /\ alerts[Len(alerts)].sha256 = ShaBad

\* the entry is validated (it has a file_path and lies within the first 20000)
\* and its sha256 is a string that is, ignoring case, in the known-bad set
BadEntry(runs, i) ==
    /\ KeptOf(runs, i) > 0
    /\ Pathful(runs[i].e)
    /\ runs[i].e.sha256.t = "str"
    /\ [runs[i].e.sha256 EXCEPT !.up = FALSE] \in KnownBad

C7_TruncatedToMaxRows ==
    [][HashStep =>
         LET runs == req'.body.hashes.runs
             kept == [i \in 1..Len(runs) |-> KeptOf(runs, i)]
             pathful == {i \in 1..Len(runs) : Pathful(runs[i].e)}
             rowsFor(i) == {k \in 1..Len(AddedRows) :
                               /\ AddedRows[k].row.file_path = StoredPath(runs[i].e)
                               /\ AddedRows[k].row.sha256.body = runs[i].e.sha256.body
                               /\ AddedRows[k].row.sha256.up = runs[i].e.sha256.up}
         IN  /\ resp'.inserted_hash_rows <= 20000
             /\ SumFn([k \in 1..Len(AddedRows) |-> AddedRows[k].n], 1..Len(AddedRows)) <= 20000
             /\ resp'.status = 200 =>
                   /\ resp'.inserted_hash_rows = SumFn(kept, pathful)
                   /\ \A i \in pathful :
                         SumFn([k \in 1..Len(AddedRows) |-> AddedRows[k].n], rowsFor(i))
                         = SumFn(kept, {j \in pathful :
                                          /\ StoredPath(runs[j].e) = StoredPath(runs[i].e)
                                          /\ runs[j].e.sha256.body = runs[i].e.sha256.body
                                          /\ runs[j].e.sha256.up = runs[i].e.sha256.up})
             /\ \A a \in 1..Len(Added) :
                   \E i \in pathful :
                      /\ kept[i] > 0
                      /\ Added[a].file_path = StoredPath(runs[i].e)
                      /\ Added[a].sha256.body = runs[i].e.sha256.body]_vars

\* two batches of 20001 entries were answered with 200: one whose last entry,
\* with a bad hash, was cut off, then one whose 20000th and 20001st entries
\* are two files with a bad hash
C7_Witness ==
    /\ IOC_TABLE_NAME # "" /\ ShaBad \in KnownBad
    /\ Len(file_hashes) = 3 /\ file_hashes[1].n = 20000
    /\ resp.op = "collect_hashes" /\ resp.status = 200
    /\ req.body = BatchEdge /\ req.body.hashes.n = 20001
    /\ resp.inserted_hash_rows = 19998
    /\ resp.alerts_created = 1 /\ Len(alerts) = 1

\* C8: an entry with a missing or empty file_path is dropped without error: no
\* row added by a batch has an empty file_path, no alert is added for such an
\* entry, inserted_hash_rows is the number of entries, after truncation, that
\* have a non-empty file_path, and a batch none of whose entries has one is
\* answered with 200 and adds nothing.
C8_NoPathDropped ==
    [][(HashStep /\ resp'.status # 400) =>
         LET runs == req'.body.hashes.runs
             kept == [i \in 1..Len(runs) |-> KeptOf(runs, i)]
             pathful == {i \in 1..Len(runs) : Pathful(runs[i].e)}
         IN  /\ \A k \in 1..Len(AddedRows) :
                   AddedRows[k].row.file_path.t = "str" /\ AddedRows[k].row.file_path.len > 0
             /\ \A a \in 1..Len(Added) :
                   \E i \in pathful : Added[a].file_path = StoredPath(runs[i].e)
             /\ resp'.status = 200 => resp'.inserted_hash_rows = SumFn(kept, pathful)
             /\ (pathful = {} /\ \A i \in 1..Len(runs) : runs[i].e.t = "dict") =>
                   /\ resp'.status = 200 /\ resp'.ok
                   /\ resp'.inserted_hash_rows = 0 /\ resp'.alerts_created = 0
                   /\ AddedRows = << >> /\ Added = << >>]_vars

\* two batches with entries lacking a file_path were answered with 200: one
\* whose two other entries were stored, then one that stored nothing
C8_Witness ==
    /\ IOC_TABLE_NAME # "" /\ ShaBad \in KnownBad
    /\ Len(file_hashes) = 1 /\ file_hashes[1].n = 2
    /\ file_hashes[1].row.file_path = PathA
    /\ alerts = << >>
    /\ resp.op = "collect_hashes" /\ resp.status = 200
    /\ req.body = BatchOnlyNoPath /\ resp.inserted_hash_rows = 0

\* C9 as stated: a hash batch is accepted only if hostname is non-empty and
\* hashes is present and a list (it is rejected with a client error otherwise),
\* and a rejected request persists nothing.
C9_RejectedUnlessHostnameAndList ==
    resp.op = "collect_hashes" =>
        /\ resp.status # 400 =>
              /\ req.body.kind = "object"
              /\ req.body.hostname.t = "str" /\ req.body.hostname.s # ""
              /\ req.body.hashes.t = "list"
        /\ (resp.status = 400 /\ used.req = 1) =>
              alerts = << >> /\ file_hashes = << >> /\ logs = << >> /\ disk = {}


---------------------------------------------------------------------------
(* Claims on the failures of metric ingestion *)

\* C11 as stated: collect_metrics answers with a client error (4xx) exactly when
\* the body is not a JSON object (invalid JSON, or a JSON value of another
\* type), no other input gets a failure response, and a request that fails
\* persists nothing and leaves the cache as it was.
C11_ClientErrorIffNotObject ==
    resp.op = "collect_metrics" =>
        /\ resp.status \in {200} \cup (400..499)
        /\ resp.status # 200 <=> req.body.kind # "object"
        /\ (resp.status # 200 /\ used.req = 1) =>
              logs = << >> /\ disk = {} /\ alerts = << >> /\ _metrics_cache = << >>


---------------------------------------------------------------------------
(* Claims on the RAM ratio *)

\* the number a metric field holds, 0 when it is missing
NumOf(x) == IF x.t \in {"num", "numstr"} THEN x.v ELSE 0

RECURSIVE ProdFn(_, _)
ProdFn(f, S) ==
    IF S = {} THEN 1
    ELSE LET x == CHOOSE y \in S : TRUE IN f[x] * ProdFn(f, S \ {x})

\* C12: a metric ingestion with numeric fields never fails on the division,
\* whatever ramTotal is; its ram_ratio is ramUsed/ramTotal when ramTotal > 0 and
\* 0 when ramTotal <= 0 or is missing, as resource_alerted and the ram_ratio of
\* the alert row show; and a fleet-view read samples the mean over the cached
\* hosts of ramUsed/ramTotal*100, taken as 0 for a host whose ramTotal <= 0,
\* rounded to the nearest 1/100.
C12_RamRatioGuarded ==
    [][/\ used'.req = used.req + 1 =>
             LET rt == NumOf(req'.body.ramTotal)
                 ru == NumOf(req'.body.ramUsed)
                 cpu == NumOf(req'.body.cpu)
             IN  /\ resp'.status = 200 /\ resp'.ok
                 /\ resp'.resource_alerted
                       <=> (cpu >= 90 \/ (rt > 0 /\ 10 * ru >= 9 * rt))
                 /\ Len(Added) = (IF resp'.resource_alerted THEN 1 ELSE 0)
                 /\ \A k \in 1..Len(Added) :
                       /\ Added[k].ram_ratio.t = "num" /\ Added[k].ram_ratio.den > 0
                       /\ IF rt > 0
                          THEN Added[k].ram_ratio.num * rt = ru * Added[k].ram_ratio.den
                          ELSE Added[k].ram_ratio.num = 0
       /\ used'.read = used.read + 1 =>
             LET d == _metrics_cache
                 n == Len(d)
                 pn == [i \in 1..n |-> IF d[i].val.ramTotal > 0
                                       THEN 100 * d[i].val.ramUsed ELSE 0]
                 pd == [i \in 1..n |-> IF d[i].val.ramTotal > 0
                                       THEN d[i].val.ramTotal ELSE 1]
                 D == ProdFn(pd, 1..n)
                 N == SumFn([i \in 1..n |-> pn[i] * (D \div pd[i])], 1..n)
                 s == samples'[Len(samples')].ram
             IN  /\ Len(samples') = Len(samples) + 1
                 /\ IF n = 0 THEN s = 0
                    ELSE 2 * Abs(s * D * n - 100 * N) <= D * n]_vars

\* a read has sampled two hosts, one with ramUsed/ramTotal = 1/3 and one whose
\* ramTotal is not positive while its ramUsed is not 0, after a request whose
\* ramTotal was negative was answered with ok and no alert
C12_Witness ==
    /\ Len(view.items) = 2
    /\ \E i \in 1..2 : view.items[i].val.ramTotal = 3 /\ view.items[i].val.ramUsed = 1
    /\ \E i \in 1..2 : view.items[i].val.ramTotal <= 0 /\ view.items[i].val.ramUsed # 0
    /\ samples # << >> /\ samples[Len(samples)].ram = 1667
    /\ resp.status = 200 /\ ~resp.resource_alerted
    /\ NumOf(req.body.ramTotal) < 0 /\ alerts = << >>


---------------------------------------------------------------------------
(* Claims on the liveness cache *)

\* the hostname a report is filed under
HostOf(body) ==
    IF body.hostname.t # "null" /\ body.hostname.s # "" THEN body.hostname.s ELSE "unknown"

\* the positions of hostname h in cache d
Slots(d, h) == {i \in 1..Len(d) : d[i].key = h}

\* the snapshot of a report processed at time t
SnapshotOf(body, t) ==
    LET diskOk == body.diskTotal.t \notin {"text", "list"} \/ body.diskTotal.v = 0
        usedOk == body.diskUsed.t \notin {"text", "list"} \/ body.diskUsed.v = 0
    IN  [ts |-> t, name |-> HostOf(body),
         ip |-> IF body.ip # "" THEN body.ip ELSE body.ip_address,
         status |-> "up", cpu |-> NumOf(body.cpu),
         ramTotal |-> NumOf(body.ramTotal), ramUsed |-> NumOf(body.ramUsed),
         diskTotal |-> IF diskOk /\ usedOk THEN NumOf(body.diskTotal) ELSE 0,
         diskUsed |-> IF diskOk /\ usedOk THEN NumOf(body.diskUsed) ELSE 0,
         netIn |-> NumOf(body.netIn), netOut |-> NumOf(body.netOut)]

\* C13: the cache holds one snapshot per hostname. A report that is processed
\* (answered with ok) leaves, under its hostname, exactly its own snapshot, so
\* the snapshot of a host is that of its most recently processed report; the
\* hostnames cached are those before and the report's; the snapshot of every
\* other host is unchanged. A request that fails leaves the cache as it was.
C13_LastWriteWins ==
    [][(used'.req = used.req + 1 /\ resp'.op = "collect_metrics") =>
         IF resp'.status = 200
         THEN LET h == HostOf(req'.body)
                  d == _metrics_cache'
              IN  /\ \A i, j \in 1..Len(d) : d[i].key = d[j].key => i = j
                  /\ Cardinality(Slots(d, h)) = 1
                  /\ \A i \in Slots(d, h) : d[i].val = SnapshotOf(req'.body, now)
                  /\ {d[i].key : i \in 1..Len(d)}
                        = {_metrics_cache[i].key : i \in 1..Len(_metrics_cache)} \cup {h}
                  /\ \A i \in 1..Len(_metrics_cache) :
                        _metrics_cache[i].key # h => d[i] = _metrics_cache[i]
         ELSE _metrics_cache' = _metrics_cache]_vars

\* two reports of one host were processed, a breaching one and then a calm
\* one: the cache holds the calm one alone
C13_Witness ==
    /\ used.req = 2 /\ Len(logs) = 2
    /\ Len(alerts) = 1 /\ alerts[1].hostname = "h1" /\ alerts[1].cpu = SomeNum(95)
    /\ Len(_metrics_cache) = 1 /\ _metrics_cache[1].key = "h1"
    /\ _metrics_cache[1].val = SnapshotOf(MetricCalm, now)


---------------------------------------------------------------------------
(* Claims on storage faults *)

\* the step is a collect_metrics request
MetricStep == used'.req = used.req + 1 /\ resp'.op = "collect_metrics"

\* the payload is a JSON object whose cpu, ramTotal, ramUsed, netIn and netOut
\* are numbers, numeric strings, empty or missing
NumericMetric(body) ==
    /\ body.kind = "object"
    /\ \A x \in {body.cpu, body.ramTotal, body.ramUsed, body.netIn, body.netOut} :
          x.t \in {"null", "num", "numstr"} \/ x.v = 0

\* the payload passes the parse block of collect_hashes
ParsedBatch(body) ==
    /\ body.kind = "object"
    /\ body.hostname.t = "str" /\ body.hostname.s \notin {"", "  "}
    /\ body.hashes.t \in {"list", "absent", "null"} \/ body.hashes.n = 0

\* every entry within the first 20000 is a JSON object
DictEntries(body) ==
    \A i \in 1..Len(body.hashes.runs) :
        KeptOf(body.hashes.runs, i) > 0 => body.hashes.runs[i].e.t = "dict"

\* the rows a batch stores: its entries within the first 20000 with a file_path
RowsOf(body) ==
    LET runs == body.hashes.runs
    IN  SumFn([i \in 1..Len(runs) |-> KeptOf(runs, i)],
              {i \in 1..Len(runs) : Pathful(runs[i].e)})

\* how many rows a step added
AddedRowCount == SumFn([k \in 1..Len(AddedRows) |-> AddedRows[k].n], 1..Len(AddedRows))

\* C14: a storage error of the alert insert is recovered locally. A metric
\* report whose alert insert fails still updates the cache and is answered
\* ok: true (resource_alerted: true), the alert row missing; a hash batch with
\* failing alert inserts is still answered ok: true with its rows committed,
\* the loop going on to the other alerts: only the failed ones are missing.
C14_AlertFailureRecovered ==
    [][/\ (MetricStep /\ 1 \in req'.faults.alert /\ NumericMetric(req'.body)) =>
             /\ resp'.status = 200 /\ resp'.ok
             /\ \E i \in 1..Len(_metrics_cache') :
                   /\ _metrics_cache'[i].key = HostOf(req'.body)
                   /\ _metrics_cache'[i].val = SnapshotOf(req'.body, now)
             /\ alerts' = alerts
       /\ (/\ HashStep /\ req'.faults.alert # {} /\ ParsedBatch(req'.body)
           /\ DictEntries(req'.body) /\ ~req'.faults.rows /\ ~req'.faults.ioc) =>
             /\ resp'.status = 200 /\ resp'.ok
             /\ resp'.inserted_hash_rows = RowsOf(req'.body)
             /\ AddedRowCount = RowsOf(req'.body)
             /\ SubSeq(file_hashes', 1, Len(file_hashes)) = file_hashes
             /\ SubSeq(alerts', 1, Len(alerts)) = alerts
             /\ Len(Added) = Cardinality((1..resp'.alerts_created) \ req'.faults.alert)]_vars

\* a breaching report whose alert insert failed was answered ok and cached,
\* then a batch of two files with a bad hash lost its first alert and stored
\* the second
C14_Witness ==
    /\ Len(_metrics_cache) = 1 /\ _metrics_cache[1].val.cpu = 95
    /\ resp.op = "collect_hashes" /\ resp.status = 200 /\ resp.alerts_created = 2
    /\ req.faults.alert = {1}
    /\ Len(alerts) = 1 /\ alerts[1].category = "HASH" /\ alerts[1].file_path = PathB
    /\ Len(file_hashes) = 3

\* C15: when the insert of a batch's rows fails with a storage error the batch
\* is answered with the server error 500, no row is stored, no IOC query is
\* issued and no alert is created.
C15_RowsFailureSurfaced ==
    [][(/\ HashStep /\ req'.faults.rows /\ ParsedBatch(req'.body)
        /\ DictEntries(req'.body) /\ RowsOf(req'.body) > 0) =>
          /\ resp'.status = 500 /\ ~resp'.ok
          /\ resp'.alerts_created = 0 /\ resp'.inserted_hash_rows = 0
          /\ file_hashes' = file_hashes
          /\ alerts' = alerts
          /\ lookups' = lookups]_vars

\* a batch with a bad hash was looked up and alerted, then the same batch, its
\* rows insert failing, was answered with 500: still one lookup, one alert
C15_Witness ==
    /\ resp.op = "collect_hashes" /\ resp.status = 500
    /\ req.body = BatchBad /\ req.faults.rows
    /\ used.req = 2 /\ lookups = 1
    /\ Len(alerts) = 1 /\ Len(file_hashes) = 1 /\ Len(logs) = 2


\* the status of the answer to a metric payload
MetricStatus(body) ==
    IF body.kind = "invalid" THEN 400
    ELSE IF body.kind # "object" THEN 500
    ELSE IF NumericMetric(body) THEN 200 ELSE 500

\* the batch has a hash to look up: an entry within the first 20000 with a
\* file_path and a sha256 that is a string of 64 characters
HasLookup(body) ==
    \E i \in 1..Len(body.hashes.runs) :
        LET e == body.hashes.runs[i].e
        IN  /\ KeptOf(body.hashes.runs, i) > 0 /\ Pathful(e)
            /\ e.sha256.t = "str" /\ e.sha256.len = 64

\* the status of the answer to a hash payload; rowsFail and iocFail say that
\* the rows insert and the IOC query fail
HashStatus(body, rowsFail, iocFail) ==
    IF ~ParsedBatch(body) THEN 400
    ELSE IF ~DictEntries(body) THEN 500
    ELSE IF RowsOf(body) > 0 /\ rowsFail THEN 500
    ELSE IF HasLookup(body) /\ IOC_TABLE_NAME # "" /\ iocFail THEN 500
    ELSE 200

\* the path of the payload file of a request received now (hostnames without
\* spaces)
PathOf(body) == [hn |-> HostOf(body), ts |-> now]

\* C16: the outcome of an ingestion does not depend on the failure of the
\* payload file write or of the audit-row insert. Whether or not they fail, a
\* metric report is answered with the status its body determines and, when
\* that is 200, with the same saved_file and resource_alerted, its snapshot
\* cached and its alert inserted; a hash batch is answered with the status its
\* body and the faults of the rows insert and of the IOC query determine, its
\* rows stored and its alerts inserted. Nor does one audit write depend on the
\* other: the row is inserted when the file write fails, and the file written
\* when the row insert fails.
C16_AuditFailureInvisible ==
    [][/\ MetricStep =>
             LET b == req'.body
                 breach == NumOf(b.cpu) >= 90
                           \/ (NumOf(b.ramTotal) > 0
                               /\ 10 * NumOf(b.ramUsed) >= 9 * NumOf(b.ramTotal))
             IN  /\ resp'.status = MetricStatus(b)
                 /\ IF resp'.status = 200
                    THEN /\ resp'.ok /\ resp'.saved_file = PathOf(b)
                         /\ resp'.resource_alerted = breach
                         /\ \E i \in 1..Len(_metrics_cache') :
                               _metrics_cache'[i] = [key |-> HostOf(b), val |-> SnapshotOf(b, now)]
                         /\ Len(Added) = (IF breach /\ 1 \notin req'.faults.alert THEN 1 ELSE 0)
                    ELSE _metrics_cache' = _metrics_cache /\ alerts' = alerts
                 /\ b.kind = "object" =>
                       /\ ~req'.faults.log => Len(logs') = Len(logs) + 1
                       /\ ~req'.faults.disk => PathOf(b) \in disk'
       /\ HashStep =>
             LET b == req'.body
                 rowsDone == /\ ParsedBatch(b) /\ DictEntries(b)
                             /\ ~(RowsOf(b) > 0 /\ req'.faults.rows)
             IN  /\ resp'.status = HashStatus(b, req'.faults.rows, req'.faults.ioc)
                 /\ AddedRowCount = (IF rowsDone THEN RowsOf(b) ELSE 0)
                 /\ IF resp'.status = 200
                    THEN /\ resp'.ok /\ resp'.saved_file = PathOf(b)
                         /\ resp'.inserted_hash_rows = RowsOf(b)
                         /\ Len(Added) = Cardinality((1..resp'.alerts_created)
                                                     \ req'.faults.alert)
                    ELSE alerts' = alerts
                 /\ ParsedBatch(b) =>
                       /\ ~req'.faults.log => Len(logs') = Len(logs) + 1
                       /\ ~req'.faults.disk => PathOf(b) \in disk']_vars

\* a breaching report and then a batch with a bad hash, the file write and the
\* row insert failing for both, were answered with ok: no file and no audit
\* row, the snapshot cached, the row stored, both alerts inserted
C16_Witness ==
    /\ used.req = 2 /\ logs = << >> /\ disk = {}
    /\ req.faults.log /\ req.faults.disk
    /\ resp.op = "collect_hashes" /\ resp.status = 200 /\ resp.alerts_created = 1
    /\ Len(_metrics_cache) = 1 /\ Len(file_hashes) = 1
    /\ Len(alerts) = 2 /\ alerts[1].category = "RESOURCE" /\ alerts[2].category = "HASH"


\* the step is an ingestion request that passes the parse of its handler, and
\* the severity of its audit row
Ingestion ==
    \/ MetricStep /\ req'.body.kind = "object"
    \/ HashStep /\ ParsedBatch(req'.body)

AuditSeverity == IF resp'.op = "collect_metrics" THEN "METRICS" ELSE "HASH"

\* the audit row of the request of a step
AuditRow ==
    [id |-> Len(logs) + 1, device_name |-> HostOf(req'.body),
     log_path |-> PathOf(req'.body), severity |-> AuditSeverity, created_at |-> now]

\* C17 as stated: every ingestion event adds exactly one row to the audit log,
\* with severity METRICS or HASH and the path of the raw payload, whether the
\* request then succeeds or fails.
C17_OneAuditRowPerIngestion ==
    [][Ingestion => logs' = Append(logs, AuditRow)]_vars

\* C17, amended: every ingestion request that passes the parse of its handler
\* attempts one audit-row insert, before the core of the request: unless that
\* insert fails with a storage error, which is swallowed and leaves no row, the
\* log gains exactly one row, with severity METRICS or HASH, the hostname and
\* the path computed for the payload file (the file exists only if its write
\* did not fail), also when the request then ends in an error; a request
\* rejected by the parse adds no row.
C17_OneAuditRowUnlessInsertFails ==
    [][/\ Ingestion =>
             /\ logs' = (IF req'.faults.log THEN logs ELSE Append(logs, AuditRow))
             /\ ~req'.faults.disk => PathOf(req'.body) \in disk'
             /\ (req'.faults.disk /\ PathOf(req'.body) \notin disk) =>
                   PathOf(req'.body) \notin disk'
       /\ (used'.req = used.req + 1 /\ ~Ingestion) =>
             logs' = logs /\ disk' = disk /\ resp'.status # 200]_vars

\* a metric report and a hash batch that ended in an error after the audit
\* write have each left their row, and nothing else
C17_Witness ==
    /\ used.req = 2 /\ Len(logs) = 2
    /\ logs[1].severity = "METRICS" /\ logs[2].severity = "HASH"
    /\ logs[2].log_path \in disk
    /\ resp.status = 500 /\ ~req.faults.log
    /\ alerts = << >> /\ file_hashes = << >> /\ _metrics_cache = << >>


---------------------------------------------------------------------------
(* Claims on the alert listing *)

\* C18: a listing with limit L, 1 <= L <= 500, that is answered returns
\* min(L, number of stored alerts) alerts, all of them stored alerts, in
\* strictly descending order of creation (of id), and they are the most recent
\* ones: every stored alert that is not returned is older than every one
\* returned. (A limit outside 1..500 is rejected.)
C18_MostRecentFirst ==
    [][used'.read = used.read + 1 =>
         LET L == listing'.limit
             rows == listing'.rows
             n == Len(alerts)
         IN  IF L >= 1 /\ L <= 500
             THEN /\ listing'.status \in {200, 500}
                  /\ listing'.status = 200 =>
                        /\ Len(rows) = Min(L, n)
                        /\ \A i \in 1..Len(rows) : \E k \in 1..n : rows[i] = alerts[k]
                        /\ \A i, j \in 1..Len(rows) : i < j => rows[i].id > rows[j].id
                        /\ \A k \in 1..n :
                              (\A i \in 1..Len(rows) : rows[i] # alerts[k]) =>
                                  \A i \in 1..Len(rows) : alerts[k].id < rows[i].id
             ELSE listing'.status = 422 /\ rows = << >>]_vars

\* three alerts stored, a listing with limit 2 has returned the last two, the
\* newest first
C18_Witness ==
    /\ Len(alerts) = 3 /\ alerts[1].hostname # alerts[3].hostname
    /\ alerts[1].ts < alerts[3].ts
    /\ listing.status = 200 /\ listing.limit = 2
    /\ listing.rows = << alerts[3], alerts[2] >>


---------------------------------------------------------------------------
(* Claims on concurrent requests *)

\* no reader is between its first and its last append
Quiescent == \A t \in Threads : readers[t].pc \notin {"down", "cpu", "ram"}

\* C19 as stated: under concurrent fleet-view reads a sample is appended to the
\* four history buffers atomically: the history a read returns has four lists
\* of equal length, and whenever no reader is in the middle of its appends the
\* four buffers have equal length and their i-th elements come from the same
\* read.
C19_SamplesAppendedAtomically ==
    /\ Len(view.history.up) = Len(view.history.down)
    /\ Len(view.history.down) = Len(view.history.cpu)
    /\ Len(view.history.cpu) = Len(view.history.ram)
    /\ Quiescent =>
          /\ Len(_history_up) = Len(_history_down)
          /\ Len(_history_down) = Len(_history_cpu)
          /\ Len(_history_cpu) = Len(_history_ram)
          /\ origin.up = origin.down /\ origin.down = origin.cpu
          /\ origin.cpu = origin.ram


\* the cache entry is the complete snapshot of one of the reports
Whole(e, t) ==
    \E b \in ConcBodies, ts \in 0..t : e = [key |-> HostOf(b), val |-> SnapshotOf(b, ts)]

\* the row of a response is that of the cache entry
RowOf(row, e) ==
    /\ row.name = e.val.name /\ row.ip = e.val.ip /\ row.cpu = e.val.cpu
    /\ row.ramTotal = e.val.ramTotal /\ row.ramUsed = e.val.ramUsed
    /\ row.diskTotal = e.val.diskTotal /\ row.diskUsed = e.val.diskUsed
    /\ row.netIn = e.val.netIn /\ row.netOut = e.val.netOut

\* C20: with ingestions and fleet-view reads overlapping, every cache entry is
\* at every moment the complete snapshot of one report, one entry per
\* hostname, and after an ingestion the entry of its host is the snapshot of
\* that report; the ingestion leaves the entries of the other hosts as they
\* were, and a read leaves them all. A read works on the entries the cache
\* held at one moment, so for each host on the whole snapshot before or the
\* whole one after a concurrent ingestion, and each row it returns is that of
\* one such snapshot.
C20_IngestionsSerialized ==
    [][/\ \A i \in 1..Len(_metrics_cache') : Whole(_metrics_cache'[i], now')
       /\ \A i, j \in 1..Len(_metrics_cache') :
             _metrics_cache'[i].key = _metrics_cache'[j].key => i = j
       /\ IF MetricStep
          THEN /\ \E i \in 1..Len(_metrics_cache') :
                     _metrics_cache'[i] = [key |-> HostOf(req'.body),
                                           val |-> SnapshotOf(req'.body, now)]
               /\ \A i \in 1..Len(_metrics_cache) :
                     _metrics_cache[i].key # HostOf(req'.body) =>
                         _metrics_cache'[i] = _metrics_cache[i]
               /\ readers' = readers
          ELSE _metrics_cache' = _metrics_cache
       /\ \A t \in Threads :
             /\ \A i \in 1..Len(readers'[t].items) : Whole(readers'[t].items[i], now')
             /\ (readers[t].pc = "idle" /\ readers'[t].pc # "idle") =>
                   readers'[t].items = _metrics_cache
             /\ (readers[t].pc # "idle" /\ readers'[t].pc # "idle") =>
                   readers'[t].items = readers[t].items
       /\ Len(view'.servers) = Len(view'.items)
       /\ \A i \in 1..Len(view'.items) :
             /\ Whole(view'.items[i], now')
             /\ RowOf(view'.servers[i], view'.items[i])]_vars

\* two reports of one host were ingested while two reads were in progress: one
\* reader works on the snapshot of the first report and the other on that of
\* the second, which the cache holds
C20_Witness ==
    /\ used.req = 2 /\ Len(_metrics_cache) = 1
    /\ \E t, u \in Threads :
          /\ readers[t].pc \notin {"idle", "return"} /\ readers[u].pc \notin {"idle", "return"}
          /\ Len(readers[t].items) = 1 /\ Len(readers[u].items) = 1
          /\ readers[t].items[1].key = _metrics_cache[1].key
          /\ readers[t].items[1].val # _metrics_cache[1].val
          /\ readers[u].items[1] = _metrics_cache[1]


---------------------------------------------------------------------------
(* Claims on the life of a host in the fleet view *)

\* the hosts that have reported, and the time of the last report of host h, as
\* the audit log records them
Reported == {logs[i].device_name : i \in 1..Len(logs)}
LastReport(h) ==
    LET at == {logs[i].created_at : i \in {j \in 1..Len(logs) : logs[j].device_name = h}}
    IN  CHOOSE t \in at : \A u \in at : u <= t

\* C21: no step removes a hostname from the cache, and every fleet-view read
\* lists each host that has reported exactly once: as "down" if the read is
\* made more than STALE_SECS seconds after the host's last report, as "up"
\* otherwise, whatever earlier reads showed.
C21_NeverEvicted ==
    [][/\ \A i \in 1..Len(_metrics_cache) :
             \E j \in 1..Len(_metrics_cache') :
                 _metrics_cache'[j].key = _metrics_cache[i].key
       /\ used'.read = used.read + 1 =>
             \A h \in Reported :
                 /\ Cardinality({i \in 1..Len(view'.servers) :
                                    view'.servers[i].name = h}) = 1
                 /\ \A i \in 1..Len(view'.servers) :
                       view'.servers[i].name = h =>
                           view'.servers[i].status
                              = (IF now - LastReport(h) > 30 THEN "down" ELSE "up")]_vars

\* a read lists two hosts: one that reported 31 seconds ago, shown "down", and
\* one that reported since, shown "up"
C21_Witness ==
    /\ Reported = {"h1", "h2"} /\ Len(view.servers) = 2
    /\ \E i, j \in 1..2 :
          /\ view.servers[i].status = "down"
          /\ view.now - LastReport(view.servers[i].name) = 31
          /\ view.servers[j].status = "up"
          /\ view.now - LastReport(view.servers[j].name) < 31


---------------------------------------------------------------------------
(* Claims on what the operations leave alone *)

\* q2 is q1 with one element appended
OneMore(q1, q2) == Len(q2) = Len(q1) + 1 /\ SubSeq(q2, 1, Len(q1)) = q1

\* C22: history samples are taken by fleet-view reads only. A read appends
\* exactly one element to each of the four (not yet full) history buffers, the
\* sample it computed, and leaves the cache as it was; every other step
\* (collect_metrics, collect_hashes, the alert and the log listing, the clock)
\* leaves the four buffers as they were.
C22_SampledOnReadOnly ==
    [][IF Len(samples') = Len(samples) + 1
       THEN LET s == samples'[Len(samples')]
            IN  /\ OneMore(_history_up, _history_up')
                /\ OneMore(_history_down, _history_down')
                /\ OneMore(_history_cpu, _history_cpu')
                /\ OneMore(_history_ram, _history_ram')
                /\ _history_up'[Len(_history_up')] = s.up
                /\ _history_down'[Len(_history_down')] = s.down
                /\ _history_cpu'[Len(_history_cpu')] = s.cpu
                /\ _history_ram'[Len(_history_ram')] = s.ram
                /\ _metrics_cache' = _metrics_cache
                /\ req' = req /\ listing' = listing
       ELSE /\ samples' = samples
            /\ _history_up' = _history_up /\ _history_down' = _history_down
            /\ _history_cpu' = _history_cpu /\ _history_ram' = _history_ram]_vars

\* a report, a hash batch, an alert or log listing and a read have happened:
\* the buffers hold the one sample of the read
C22_Witness ==
    /\ Len(_metrics_cache) = 1 /\ file_hashes # << >> /\ Len(alerts) = 2
    /\ listing.status = 200 /\ listing.rows # << >>
    /\ Len(samples) = 1
    /\ _history_up = << 1 >> /\ _history_down = << 0 >>
    /\ _history_cpu = << 9500 >> /\ _history_ram = << 9500 >>


---------------------------------------------------------------------------
(* Claims on the fleet sample *)

\* C23: the sample a fleet-view read appends has up + down equal to the number
\* of hosts in the cache at the read and to the number of rows returned; up is
\* the number of hosts whose age is at most STALE_SECS; cpu and ram are the
\* means over all cached hosts, those shown "down" included, of cpu and of
\* ramUsed/ramTotal*100 (0 for a host whose ramTotal <= 0), rounded to the
\* nearest 1/100, and are 0 when the cache is empty.
C23_SampleOverAllHosts ==
    [][used'.read = used.read + 1 =>
         LET d == _metrics_cache
             n == Len(d)
             s == samples'[Len(samples')]
             pn == [i \in 1..n |-> IF d[i].val.ramTotal > 0
                                   THEN 100 * d[i].val.ramUsed ELSE 0]
             pd == [i \in 1..n |-> IF d[i].val.ramTotal > 0 THEN d[i].val.ramTotal ELSE 1]
             D == ProdFn(pd, 1..n)
             N == SumFn([i \in 1..n |-> pn[i] * (D \div pd[i])], 1..n)
             C == SumFn([i \in 1..n |-> d[i].val.cpu], 1..n)
         IN  /\ Len(samples') = Len(samples) + 1
             /\ s.up + s.down = n
             /\ Len(view'.servers) = n
             /\ s.up = Cardinality({i \in 1..n : now - d[i].val.ts <= 30})
             /\ s.up = Cardinality({i \in 1..n : view'.servers[i].status = "up"})
             /\ IF n = 0 THEN s.cpu = 0 /\ s.ram = 0
                ELSE /\ 2 * Abs(s.cpu * n - 100 * C) <= n
                     /\ 2 * Abs(s.ram * D * n - 100 * N) <= D * n]_vars

\* a read over a host that is down (cpu 95, ram 95%) and one that is up (cpu
\* 10, ramTotal 0) has sampled up 1, down 1, cpu 52.5 and ram 47.5
C23_Witness ==
    /\ Len(view.servers) = 2
    /\ \E i, j \in 1..2 :
          /\ view.servers[i].status = "down" /\ view.servers[i].cpu = 95
          /\ view.servers[j].status = "up" /\ view.servers[j].cpu = 10
    /\ samples # << >>
    /\ samples[Len(samples)] = [up |-> 1, down |-> 1, cpu |-> 5250, ram |-> 4750]


---------------------------------------------------------------------------
(* Claims on the hostname of a report *)

\* the report has no hostname, or an empty one
Nameless(body) == body.hostname.t = "null" \/ body.hostname.s = ""

\* C24: a metric report whose hostname is absent or empty is filed under the
\* literal "unknown": after it the cache has exactly one entry "unknown", the
\* snapshot of this report, the entries of the other hosts being as before;
\* the alert it produces and its audit row carry the hostname "unknown". A
\* report with a hostname does not touch the entry "unknown".
C24_UnknownHostname ==
    [][MetricStep =>
         LET b == req'.body
             d == _metrics_cache'
             unknown == {i \in 1..Len(d) : d[i].key = "unknown"}
         IN  IF Nameless(b)
             THEN /\ resp'.status = 200
                  /\ Cardinality(unknown) = 1
                  /\ \A i \in unknown :
                        /\ d[i].val.name = "unknown" /\ d[i].val.ts = now
                        /\ d[i].val.cpu = NumOf(b.cpu)
                        /\ d[i].val.ramUsed = NumOf(b.ramUsed)
                  /\ \A i \in 1..Len(_metrics_cache) :
                        _metrics_cache[i].key # "unknown" => d[i] = _metrics_cache[i]
                  /\ Len(d) = Len(_metrics_cache)
                              + (IF \E i \in 1..Len(_metrics_cache) :
                                       _metrics_cache[i].key = "unknown" THEN 0 ELSE 1)
                  /\ \A k \in 1..Len(Added) : Added[k].hostname = "unknown"
                  /\ Len(logs') = Len(logs) + 1
                  /\ logs'[Len(logs')].device_name = "unknown"
                  /\ logs'[Len(logs')].log_path.hn = "unknown"
             ELSE /\ \A i \in 1..Len(_metrics_cache) :
                        _metrics_cache[i].key = "unknown" => d[i] = _metrics_cache[i]
                  /\ Cardinality(unknown)
                        = Cardinality({i \in 1..Len(_metrics_cache) :
                                          _metrics_cache[i].key = "unknown"})
                  /\ \A k \in 1..Len(Added) : Added[k].hostname = b.hostname.s]_vars

\* a report without hostname (cpu 95), one with a hostname and one with an
\* empty hostname (cpu 50) were ingested: one entry "unknown", holding the
\* last, one alert and two audit rows for "unknown"
C24_Witness ==
    /\ used.req = 3 /\ Len(_metrics_cache) = 2
    /\ req.body.hostname = HStr("")
    /\ \E i \in 1..2 : _metrics_cache[i].key = "unknown" /\ _metrics_cache[i].val.cpu = 50
    /\ \E k \in 1..Len(alerts) : alerts[k].hostname = "unknown" /\ alerts[k].cpu = SomeNum(95)
    /\ Cardinality({i \in 1..Len(logs) : logs[i].device_name = "unknown"}) = 2


---------------------------------------------------------------------------
(* Claims on the alert rows *)

\* the report's cpu is at or above 90
CpuHigh(body) == NumOf(body.cpu) >= 90

\* the report's ramUsed / ramTotal is at or above 0.9 (0 when ramTotal <= 0)
RamHigh(body) ==
    NumOf(body.ramTotal) > 0 /\ 10 * NumOf(body.ramUsed) >= 9 * NumOf(body.ramTotal)

\* the threshold names in sequence d
Named(d) == {d[i] : i \in 1..Len(d)}

\* C25 as stated: the description of the RESOURCE alert of an ingestion names
\* CPU iff cpu >= 90 and RAM iff ramUsed / ramTotal >= 0.9, and a report
\* breaching both yields one alert of severity CRITICAL naming both.
C25_BothBreachesOneAlert ==
    [][MetricStep =>
         LET b == req'.body
         IN  /\ \A k \in 1..Len(Added) :
                   /\ ("CPU" \in Named(Added[k].description)) = CpuHigh(b)
                   /\ ("RAM" \in Named(Added[k].description)) = RamHigh(b)
             /\ (b.kind = "object" /\ NumericMetric(b) /\ CpuHigh(b) /\ RamHigh(b))
                   => /\ Len(Added) = 1 /\ Added[1].severity = "CRITICAL"
                      /\ Named(Added[1].description) = {"CPU", "RAM"}]_vars

\* C25, amended: a metric ingestion adds at most one alert; the alert is of
\* category RESOURCE and severity CRITICAL and its description names CPU iff
\* cpu >= 90 and RAM iff ramUsed / ramTotal >= 0.9, each once; a report
\* breaching both whose alert insert does not fail with a storage error adds
\* exactly one alert, naming both.
C25_DescriptionNamesBreaches ==
    [][MetricStep =>
         LET b == req'.body
         IN  /\ Len(Added) <= 1
             /\ \A k \in 1..Len(Added) :
                   /\ Added[k].category = "RESOURCE"
                   /\ Added[k].severity = "CRITICAL"
                   /\ ("CPU" \in Named(Added[k].description)) = CpuHigh(b)
                   /\ ("RAM" \in Named(Added[k].description)) = RamHigh(b)
                   /\ Named(Added[k].description) \subseteq {"CPU", "RAM"}
                   /\ Len(Added[k].description) = Cardinality(Named(Added[k].description))
             /\ (/\ b.kind = "object" /\ NumericMetric(b) /\ CpuHigh(b) /\ RamHigh(b)
                 /\ 1 \notin req'.faults.alert)
                   => Len(Added) = 1 /\ Named(Added[1].description) = {"CPU", "RAM"}]_vars

\* the last request reported cpu 95 and ram 95 of 100 and left a CRITICAL
\* alert naming both, after an alert naming the RAM alone
C25_Witness ==
    /\ resp.op = "collect_metrics" /\ req.body = MetricBoth /\ Len(alerts) = 2
    /\ alerts[2].description = <<"CPU", "RAM">> /\ alerts[2].severity = "CRITICAL"
    /\ alerts[2].cpu = SomeNum(95)
    /\ alerts[1].description = <<"RAM">> /\ alerts[1].cpu = SomeNum(89)

\* C26: whatever operation the collector performs (metric or hash ingestion,
\* fleet view, alert or log listing, passage of time), the alerts stored
\* before it are stored after it with every field unchanged, in the same
\* positions; only ingestions add alerts, and they add them at the end.
C26_AlertsImmutable ==
    [][/\ Len(alerts') >= Len(alerts)
       /\ SubSeq(alerts', 1, Len(alerts)) = alerts
       /\ \A k \in 1..Len(Added) : Added[k].id = Len(alerts) + k /\ Added[k].ts = now
       /\ used'.req = used.req => alerts' = alerts]_vars

\* a HASH alert was stored and listed, and one second later a RESOURCE alert
\* was added behind it
C26_Witness ==
    /\ Len(alerts) = 2 /\ alerts[1].category = "HASH" /\ alerts[2].category = "RESOURCE"
    /\ alerts[1].ts = 0 /\ alerts[2].ts = 1
    /\ listing.status = 200 /\ listing.rows = <<alerts[1]>>


---------------------------------------------------------------------------
(* Claims on the hash records *)

\* how many records the table holds
StoredRowCount == SumFn([k \in 1..Len(file_hashes) |-> file_hashes[k].n], 1..Len(file_hashes))

\* C27: the hash records are append-only and not deduplicated. Every operation
\* leaves the stored records as they are; only a hash batch adds records, and a
\* batch answered with 200 adds, behind the stored ones, one record per entry
\* with a file_path among its first 20000, whatever is stored already.
C27_HashRecordsAppendOnly ==
    [][/\ Len(file_hashes') >= Len(file_hashes)
       /\ SubSeq(file_hashes', 1, Len(file_hashes)) = file_hashes
       /\ ~HashStep => file_hashes' = file_hashes
       /\ (HashStep /\ resp'.status = 200) =>
             /\ AddedRowCount = RowsOf(req'.body)
             /\ resp'.inserted_hash_rows = RowsOf(req'.body)
             /\ \A k \in 1..Len(AddedRows) : AddedRows[k].row.ts = now]_vars

\* the batch of three files was submitted twice, one second apart: six
\* records, the last three repeating the first three
C27_Witness ==
    /\ used.req = 2 /\ req.body = BatchShared /\ resp.inserted_hash_rows = 3
    /\ StoredRowCount = 6 /\ Len(file_hashes) = 6
    /\ \A k \in 1..3 :
          /\ file_hashes[k].row.ts = 0 /\ file_hashes[k + 3].row.ts = 1
          /\ file_hashes[k + 3].row.file_path = file_hashes[k].row.file_path
          /\ file_hashes[k + 3].row.sha256 = file_hashes[k].row.sha256


---------------------------------------------------------------------------
(* Claims on the IOC matcher *)

\* the value is a string of exactly 64 hexadecimal characters
WellFormed(sha) == sha.t = "str" /\ sha.len = 64 /\ sha.body # "g"

\* the entries of the batch that are stored and carry a well-formed hash
WellFormedEntries(body) ==
    {i \in 1..Len(body.hashes.runs) :
        /\ KeptOf(body.hashes.runs, i) > 0
        /\ Pathful(body.hashes.runs[i].e)
        /\ WellFormed(body.hashes.runs[i].e.sha256)}

\* C28 as stated: the IOC matcher considers only well-formed hashes. A batch
\* none of whose entries has a sha256 that is a string of exactly 64
\* hexadecimal characters issues no IOC lookup; every HASH alert of a batch is
\* for the file_path and the lower-cased sha256 of one of its well-formed
\* entries; the records of the other entries are persisted all the same.
C28_OnlyWellFormedMatched ==
    [][HashStep =>
         LET b == req'.body
         IN  IF ParsedBatch(b) /\ DictEntries(b)
             THEN /\ WellFormedEntries(b) = {} => lookups' = lookups /\ Added = << >>
                  /\ \A k \in 1..Len(Added) :
                        \E i \in WellFormedEntries(b) :
                            /\ Added[k].file_path = StoredPath(b.hashes.runs[i].e)
                            /\ Added[k].sha256 = Lower(b.hashes.runs[i].e.sha256)
                  /\ resp'.status = 200 => AddedRowCount = RowsOf(b)
             ELSE Added = << >>]_vars


---------------------------------------------------------------------------
(* Claims on the mtime of a hash record *)

\* the entries of a batch that have a file_path, in order
WithPath(body) == SelectSeq(body.hashes.runs, LAMBDA r : Pathful(r.e))

\* the mtime is missing, or is not the text of an ISO date-time
Unreadable(m) == m.t \in {"absent", "null"} \/ m.len = 0 \/ m.t # "str" \/ ~m.iso

\* C29: a hash batch (of at most 20000 entries) is answered 200 whatever the
\* mtime of its entries, and stores one record per entry with a file_path. The
\* record's mtime is null when the entry's mtime is missing or unreadable; it
\* is the wall-clock reading of the text, taken as UTC, when the text ends in Z
\* or has no offset; with an offset it is the reading less the offset, null
\* when that falls outside the range of datetime.
C29_MtimeNeverRaises ==
    [][HashStep =>
         LET b == req'.body
             es == WithPath(b)
         IN  (ParsedBatch(b) /\ DictEntries(b) /\ b.hashes.n <= 20000) =>
                /\ resp'.status = 200 /\ resp'.inserted_hash_rows = Len(es)
                /\ Len(AddedRows) = Len(es)
                /\ \A k \in 1..Len(es) :
                      LET m == es[k].e.mtime
                          stored == AddedRows[k].row.mtime
                      IN  /\ AddedRows[k].n = es[k].n
                          /\ AddedRows[k].row.file_path = StoredPath(es[k].e)
                          /\ IF Unreadable(m) THEN stored.t = "none"
                             ELSE IF m.zone \in {"Z", ""}
                                  THEN stored.t = "dt" /\ stored.wall = m.wall
                                       /\ stored.aware /\ stored.off = 0
                                  ELSE IF m.wall - m.off \in 0 .. (3652059 * 24 - 1)
                                       THEN stored.t = "dt" /\ stored.wall = m.wall - m.off
                                            /\ stored.aware /\ stored.off = 0
                                       ELSE stored.t = "none"]_vars

\* the scan of four files was stored: the records of the file without mtime
\* and of the file with an unreadable one have mtime null, those of the files
\* with an mtime in Z and without offset have hour 100 UTC
C29_Witness ==
    /\ req.body = BatchMtimes /\ resp.status = 200 /\ resp.inserted_hash_rows = 4
    /\ Len(file_hashes) = 4
    /\ file_hashes[1].row.mtime = DtNone /\ file_hashes[2].row.mtime = DtNone
    /\ file_hashes[3].row.mtime = DtAware(100, 0) /\ file_hashes[4].row.mtime = DtAware(100, 0)


---------------------------------------------------------------------------
(* Claims on the agent *)

\* the posts a step of the agent added
NewPosts == SubSeq(agent'.posts, Len(agent.posts) + 1, Len(agent'.posts))

\* C30: the metrics loop is fire-and-forget. A step of the agent posts at most
\* one payload, and never one that was posted before, whatever became of the
\* earlier post; the payload is the sample collected in the same iteration,
\* and it is posted no sooner than max(1, interval) seconds after the previous
\* post; a failed collection or post is printed and leads to the sleep, not to
\* the end of the loop and not to a second post. Every iteration that reaches
\* its sleep, failed or not, is followed by a whole next iteration.
C30_FireAndForget ==
    /\ [][agent' # agent =>
            /\ agent'.pc \in {"collect", "send", "sleep"}
            /\ SubSeq(agent'.posts, 1, Len(agent.posts)) = agent.posts
            /\ Len(NewPosts) <= 1
            /\ \A n \in 1..Len(NewPosts) :
                  /\ \A j \in 1..Len(agent.posts) :
                        /\ agent.posts[j].serial # NewPosts[n].serial
                        /\ NewPosts[n].time_local
                              >= agent.posts[j].at + (IF agent.interval > 1
                                                      THEN agent.interval ELSE 1)
                  /\ NewPosts[n].serial = agent.serial
                  /\ NewPosts[n].time_local = NewPosts[n].at
                  /\ agent'.pc = "sleep"
                  /\ agent'.errors = agent.errors
                                     + (IF NewPosts[n].outcome = "ok" THEN 0 ELSE 1)
            /\ (agent'.errors # agent.errors) => agent'.pc = "sleep"
            /\ agent.pc = "sleep" => agent'.pc = "collect" /\ agent'.posts = agent.posts]_vars
    /\ \A k \in 1..(MaxAgentTicks - 1) :
          (agent.tick = k /\ agent.pc = "sleep") ~> (agent.tick = k + 1 /\ agent.pc = "sleep")

\* with interval 5: the first sample timed out after 20 seconds, the second
\* collection raised, and the third iteration posted a fresh sample, taken at
\* second 30, with success
C30_Witness ==
    /\ agent.tick = 3 /\ agent.errors = 2 /\ agent.pc = "sleep"
    /\ agent.posts = << [serial |-> 1, time_local |-> 0, at |-> 0, outcome |-> "timeout"],
                        [serial |-> 2, time_local |-> 30, at |-> 30, outcome |-> "ok"] >>


---------------------------------------------------------------------------
(* Claims on the test agent *)

\* the requests the test agent posted to the metrics endpoints, and to
\* /collect-hashes
MetricRequests ==
    {i \in 1..Len(test_agent.posts) : test_agent.posts[i].url # "/collect-hashes"}
HashRequestsPosted ==
    {i \in 1..Len(test_agent.posts) : test_agent.posts[i].url = "/collect-hashes"}

\* C31 as stated: run with --once, the test agent has, when it terminates,
\* sent the metrics exactly once (one request) and, when hashing is enabled,
\* scanned exactly once, whether or not the sends succeeded.
C31_OneSendThenExit ==
    (test_agent.once /\ test_agent.pc = "done") =>
        /\ test_agent.sends = 1 /\ Cardinality(MetricRequests) = 1
        /\ test_agent.hash_enable => test_agent.scans = 1

\* C31, amended: run with --once, the test agent goes through its loop once
\* and terminates, whatever the outcome of its calls. It calls collect_metrics
\* once and, unless that raised, send_metrics once, which posts one request,
\* or two when /collect-metrics is answered 404 (the second to /collect-data);
\* it scans once iff hashing is enabled and calls send_hashes at most once,
\* which posts one request per batch of 1500 entries up to the first failure.
C31_OnePassThenExit ==
    /\ [](test_agent.once =>
            /\ test_agent.ticks <= 1 /\ test_agent.collects = test_agent.ticks
            /\ test_agent.sends <= test_agent.collects
            /\ test_agent.scans <= test_agent.ticks
            /\ test_agent.hash_sends <= test_agent.scans
            /\ Cardinality(MetricRequests) \in
                  (IF test_agent.sends = 0 THEN {0} ELSE {1, 2})
            /\ Cardinality(MetricRequests) = 2 =>
                  /\ test_agent.posts[1] = [url |-> "/collect-metrics", outcome |-> "http_404"]
                  /\ test_agent.posts[2].url = "/collect-data"
            /\ (test_agent.hash_sends = 0) = (HashRequestsPosted = {})
            /\ Cardinality(HashRequestsPosted) <= 2
            /\ \A i \in HashRequestsPosted :
                  test_agent.posts[i].outcome # "ok" => i = Len(test_agent.posts)
            /\ test_agent.pc \in {"break", "done"} =>
                  test_agent.scans = (IF test_agent.hash_enable THEN 1 ELSE 0)
            /\ test_agent.pc = "done" => test_agent.ticks = 1)
    /\ [][test_agent.pc = "done" => test_agent' = test_agent]_vars
    /\ test_agent.once ~> (test_agent.pc = "done")

\* run with --once and --hash: the metrics request found no connection, the
\* scan returned two batches of which the second was refused, and the test
\* agent has terminated
C31_Witness ==
    /\ test_agent.once /\ test_agent.hash_enable /\ test_agent.pc = "done"
    /\ test_agent.sends = 1 /\ test_agent.scans = 1 /\ test_agent.hash_sends = 1
    /\ test_agent.posts = << [url |-> "/collect-metrics", outcome |-> "connection_error"],
                             [url |-> "/collect-hashes", outcome |-> "ok"],
                             [url |-> "/collect-hashes", outcome |-> "http_error"] >>


---------------------------------------------------------------------------
(* Claims on the order of the writes of a hash batch *)

\* hash record r is the record alert a was raised for
RecordOf(a, r) ==
    /\ r.hostname = a.hostname
    /\ r.file_path = a.file_path
    /\ r.sha256.t = "str" /\ r.sha256.body = a.sha256.body /\ r.sha256.len = a.sha256.len

\* C32: after every step, each stored HASH alert has a stored hash record with
\* its hostname, its file_path and, up to letter case, its sha256; the alerts a
\* hash batch adds are for records the same request has added, with the
\* request's timestamp, so a batch whose record insert fails adds no alert.
C32_AlertHasRecord ==
    [][/\ \A k \in 1..Len(alerts') :
             alerts'[k].category = "HASH" =>
                \E j \in 1..Len(file_hashes') :
                    /\ RecordOf(alerts'[k], file_hashes'[j].row)
                    /\ file_hashes'[j].row.ts <= alerts'[k].ts
       /\ HashStep =>
             /\ \A k \in 1..Len(Added) :
                   /\ Added[k].category = "HASH"
                   /\ \E j \in 1..Len(AddedRows) :
                         /\ RecordOf(Added[k], AddedRows[j].row)
                         /\ AddedRows[j].row.ts = Added[k].ts
             /\ AddedRows = << >> => Added = << >>]_vars

\* an alert with the lower-case hash stands for a record stored with the hash
\* in upper case, and a batch whose record insert failed has left neither
\* record nor alert
C32_Witness ==
    /\ req.body = BatchBad /\ req.faults.rows /\ resp.status = 500
    /\ Len(alerts) = 2 /\ Len(file_hashes) = 3
    /\ alerts[1].category = "HASH" /\ alerts[1].sha256 = ShaBad
    /\ alerts[1].file_path = PathA
    /\ file_hashes[1].row.sha256 = ShaBadUpper /\ file_hashes[1].row.file_path = PathA


\* the rows the handler builds for a batch: none for a rejected batch
ValidatedRows(body) == IF ParsedBatch(body) THEN RowsOf(body) ELSE 0

\* C33: a hash batch persists either all the rows the handler builds for it
\* (one per entry with a file_path among the first 20000) or none of them,
\* behind the stored records; when it has rows and persists none, the
\* response is a server error (500); a batch answered 200 has persisted all.
C33_AllRowsOrNone ==
    [][HashStep =>
         LET b == req'.body
         IN  /\ SubSeq(file_hashes', 1, Len(file_hashes)) = file_hashes
             /\ AddedRowCount \in {0, ValidatedRows(b)}
             /\ (ValidatedRows(b) > 0 /\ AddedRowCount = 0) => resp'.status = 500
             /\ resp'.status = 200 => AddedRowCount = ValidatedRows(b)]_vars

\* the batch of three files failed at its insert: answered 500, none of the
\* three records stored, the record of the earlier batch untouched
C33_Witness ==
    /\ req.body = BatchShared /\ req.faults.rows /\ resp.status = 500
    /\ used.req = 2 /\ Len(file_hashes) = 1 /\ file_hashes[1].row.file_path = PathA


---------------------------------------------------------------------------
(* Claims on the counters of the responses *)

\* the known-bad hashes the batch matched: those of the IOC table, in lower
\* case, that an entry with a file_path reports as a string of 64 characters
Matched(body) ==
    IF IOC_TABLE_NAME = "" THEN {}
    ELSE {x \in KnownBad :
             \E i \in 1..Len(body.hashes.runs) :
                 LET e == body.hashes.runs[i].e
                 IN  /\ KeptOf(body.hashes.runs, i) > 0 /\ Pathful(e)
                     /\ e.sha256.t = "str" /\ e.sha256.len = 64
                     /\ [e.sha256 EXCEPT !.up = FALSE] = x}

\* the rows a step persisted whose hash, in lower case, is among bad
MatchingRows(bad) ==
    SumFn([k \in 1..Len(AddedRows) |->
              IF /\ AddedRows[k].row.sha256.t = "str"
                 /\ [AddedRows[k].row.sha256 EXCEPT !.up = FALSE] \in bad
              THEN AddedRows[k].n ELSE 0],
          1..Len(AddedRows))

\* C34: the counters of the responses count attempts. alerts_created of a
\* batch answered 200 is the number of rows it persisted whose lower-cased
\* sha256 is among the matched known-bad hashes, and resource_alerted of a
\* report answered 200 is (cpu >= 90 or ramUsed / ramTotal >= 0.9), whether the
\* alert inserts succeeded or not: the alerts stored are the attempts less the
\* failed inserts.
C34_CountersCountAttempts ==
    [][/\ (HashStep /\ resp'.status = 200) =>
             LET b == req'.body
                 attempts == MatchingRows(Matched(b))
             IN  /\ resp'.alerts_created = attempts
                 /\ Len(Added) = attempts
                                 - Cardinality(req'.faults.alert \cap (1..attempts))
       /\ (MetricStep /\ resp'.status = 200) =>
             LET b == req'.body
                 breach == CpuHigh(b) \/ RamHigh(b)
             IN  /\ resp'.resource_alerted = breach
                 /\ Len(Added) = (IF breach /\ 1 \notin req'.faults.alert THEN 1 ELSE 0)]_vars

\* a report answered resource_alerted: true has stored no alert, and after it
\* a batch answered alerts_created: 2 has stored none either
C34_Witness ==
    /\ used.req = 2 /\ alerts = << >>
    /\ req.body = BatchShared /\ resp.status = 200 /\ resp.alerts_created = 2
    /\ Len(logs) = 2 /\ logs[1].severity = "METRICS"
    /\ DictHas(_metrics_cache, "h1") /\ DictGet(_metrics_cache, "h1").cpu = 95


---------------------------------------------------------------------------
(* Claims on the IOC configuration *)

============================================================================
